---------------------------- MODULE Spec2Model ----------------------------
(***************************************************************************)
(* A model of backend/app.py: the product / iteration tree, the            *)
(* ProductAccess grant table and the request handlers that read and write  *)
(* them.  One action is one request handler, run against the shared        *)
(* database; SpecConc splits invite_user_to_product at its commit so that  *)
(* two requests can interleave.                                            *)
(***************************************************************************)
EXTENDS Integers, FiniteSets, Sequences, Bags, TLC

(* ------------------------------ bounds -------------------------------- *)

\* Registered users are 1..NumUsers.
NumUsers == 2

\* The products table's serial id stops here: at most this many products
\* are ever created (Spec, SpecAll, SpecConc).
MaxProducts == 2

\* The same for SpecCascade and for SpecTree, which need a grandchild and
\* three children of one parent.
MaxCascadeProducts == 3

MaxTreeProducts == 4

\* The ProductAccess table holds at most this many rows.
MaxAccess == 3

\* Serial ids of the tasks and customer_interviews tables stop here.
MaxTasks == 1

MaxInterviews == 1

\* The same for SpecLeaf, which needs two tasks on different products.
MaxLeafTasks == 2

MaxLeafInterviews == 1

\* Serial ids of the reminders table stop here (SpecRemind).
MaxReminders == 1

\* The ProductAccess table of SpecViewer holds at most this many rows: two
\* products, each with its owner's row and a row of the other user.
MaxViewerAccess == 4

\* Requests that can be between their checks and their commit (SpecConc).
MaxPending == 2

\* Creation requests that can be between their reads and their last commit
\* (SpecCreate).
MaxCreating == 2

(* ------------------------------ values -------------------------------- *)

Users == 1 .. NumUsers

\* Python's None: a NULL column, an absent JSON field.
None == 0

Roles == {"viewer", "editor", "owner"}

\* The 'role' field of a request body: the three literals, an unknown
\* literal, or missing.
RoleInputs == Roles \cup {"admin", "none"}

\* The 'user_email' field of an invite: the e-mail of a registered user, or
\* an address nobody registered.
EmailInputs == Users \cup {None}

\* Product names: the one a product is created with and another one.
Names == {1, 2}

\* Generated document texts.
Texts == {1, 2}

VARIABLES
    products,       \* products table: id -> [user_id, parent_id, iteration_number,
                    \*   name, research_document_json, research_status,
                    \*   prd_document_json, prd_status]
    nextProductId,  \* products.id serial
    accesses,       \* product_accesses table: a bag of [product_id, user_id, role]
    tasks,          \* tasks table: id -> [product_id, title]
    nextTaskId,
    interviews,     \* customer_interviews table: id -> [product_id,
                    \*   customer_name, ai_summary_json]
    nextInterviewId,
    pending,        \* invite requests past their checks, before their commit
    creating,       \* creation requests between their reads and their last commit
    reminders,      \* reminders table: id -> [user_id, product_id, task_id,
                    \*   title, is_acknowledged, is_snoozed]
    nextReminderId,
    given           \* history: parent id -> the iteration numbers given to
                    \* the children created under it, in creation order;
                    \* NoHistory where no history is kept

hierVars == <<products, nextProductId>>
leafVars == <<tasks, nextTaskId, interviews, nextInterviewId>>
remVars == <<reminders, nextReminderId>>
vars == <<products, nextProductId, accesses, tasks, nextTaskId,
          interviews, nextInterviewId, pending, creating, given,
          reminders, nextReminderId>>

(* ----------------------------- the tables ----------------------------- *)

Exists(p) == p \in DOMAIN products

\* Product ids a request can name: every id the serial has given out, and
\* the next one, which like every later one names no product.
ProductIds == 1 .. nextProductId

\* Product.query.filter_by(parent_id=p).all()
ChildrenOf(p) == {c \in DOMAIN products : products[c].parent_id = p}

\* ProductAccess.query.filter_by(product_id=p, user_id=u)
RowsFor(p, u) == {a \in BagToSet(accesses) : a.product_id = p /\ a.user_id = u}

RowsOfProduct(p) == {a \in BagToSet(accesses) : a.product_id = p}

AccessCount == BagCardinality(accesses)

\* The value of given in the specifications that keep no history.
NoHistory == [p \in {None} |-> <<>>]

\* The history after a step: a deleted parent is forgotten, a new child's
\* number is appended to its parent's.
RecordGiven ==
    IF given = NoHistory THEN UNCHANGED given
    ELSE given' =
           [p \in DOMAIN products' |->
              LET before == IF p \in DOMAIN given THEN given[p] ELSE <<>>
              IN  IF nextProductId \in DOMAIN products' \ DOMAIN products
                     /\ products'[nextProductId].parent_id = p
                  THEN Append(before, products'[nextProductId].iteration_number)
                  ELSE before]

RECURSIVE SetMax(_)
SetMax(S) ==
    IF S = {} THEN 0
    ELSE LET x == CHOOSE y \in S : TRUE
             m == SetMax(S \ {x})
         IN  IF x > m THEN x ELSE m

(* ------------------------ check_product_access ------------------------ *)

\* role_hierarchy with 'editor' ranked as 'owner'.
role_hierarchy_EditorAsOwner(role, default) ==
    CASE role = "viewer" -> 0
      [] role = "editor" -> 2
      [] role = "owner"  -> 2
      [] OTHER           -> default

\* role_hierarchy.get(role, default)
role_hierarchy(role, default) ==
    CASE role = "viewer" -> 0
      [] role = "editor" -> 1
      [] role = "owner"  -> 2
      [] OTHER           -> default

\* check_product_access without its 'Owners always have full access' return.
check_product_access_RowsOnly(user_id, product_id, required_role) ==
    IF ~Exists(product_id) THEN "NotFound"
    ELSE IF RowsFor(product_id, user_id) = {} THEN "NoRole"
    ELSE LET access == CHOOSE a \in RowsFor(product_id, user_id) : TRUE
         IN  IF role_hierarchy(access.role, -1) >= role_hierarchy(required_role, 0)
             THEN "Granted"
             ELSE "Insufficient"

\* check_product_access reading a missing row as a viewer grant.
check_product_access_MissingAsViewer(user_id, product_id, required_role) ==
    IF ~Exists(product_id) THEN "NotFound"
    ELSE IF products[product_id].user_id = user_id THEN "Granted"
    ELSE LET role == IF RowsFor(product_id, user_id) = {} THEN "viewer"
                     ELSE (CHOOSE a \in RowsFor(product_id, user_id) : TRUE).role
         IN  IF role_hierarchy(role, -1) >= role_hierarchy(required_role, 0)
             THEN "Granted"
             ELSE "Insufficient"

\* "Granted" is (True, product); the other three are the (False, message)
\* results.
check_product_access(user_id, product_id, required_role) ==
    IF ~Exists(product_id) THEN "NotFound"
    ELSE IF products[product_id].user_id = user_id THEN "Granted"
    ELSE IF RowsFor(product_id, user_id) = {} THEN "NoRole"
    ELSE LET access == CHOOSE a \in RowsFor(product_id, user_id) : TRUE
         IN  IF role_hierarchy(access.role, -1) >= role_hierarchy(required_role, 0)
             THEN "Granted"
             ELSE "Insufficient"

\* 403 if "Access denied" in product_or_msg else 404
AccessStatus(result) ==
    IF result \in {"NoRole", "Insufficient"} THEN "Forbidden" ELSE "NotFound"


(* --------------------------- product tree ----------------------------- *)

\* The 'parent_id' key is not in the request body.
Absent == -1

\* The next number taken from the number of children, not from their
\* largest number.
NextIterationNumber_CountPlusOne(parent_id) ==
    Cardinality(ChildrenOf(parent_id)) + 1

\* iteration_number of a new child of parent_id: max of the existing
\* children's numbers plus one, 1 when there is none.
NextIterationNumber(parent_id) ==
    LET existing_iterations == ChildrenOf(parent_id)
    IN  IF existing_iterations # {}
        THEN SetMax({products[c].iteration_number : c \in existing_iterations}) + 1
        ELSE 1

\* Product(user_id=current_user.id, parent_id=..., iteration_number=...)
\* with the name of the request body and the column defaults of the phase
\* statuses and documents.
NewProduct(u, parent_id, iteration_number) ==
    [user_id |-> u, parent_id |-> parent_id, iteration_number |-> iteration_number,
     name |-> 1,
     research_document_json |-> None, research_status |-> "Not Started",
     prd_document_json |-> None, prd_status |-> "Not Started"]

\* The creation granting its caller 'owner' on the parent as well.
InsertProductWithOwner_AlsoOnParent(u, parent_id, iteration_number) ==
    /\ products' = [q \in DOMAIN products \cup {nextProductId} |->
                      IF q = nextProductId
                      THEN NewProduct(u, parent_id, iteration_number)
                      ELSE products[q]]
    /\ nextProductId' = nextProductId + 1
    /\ accesses' =
         LET rows == {a \in BagToSet(accesses) :
                        ~(a.product_id = parent_id /\ a.user_id = u)}
         IN  [a \in rows |-> accesses[a]]
               (+) SetToBag({[product_id |-> nextProductId, user_id |-> u,
                              role |-> "owner"]}
                            \cup IF parent_id = None THEN {}
                                 ELSE {[product_id |-> parent_id, user_id |-> u,
                                        role |-> "owner"]})

\* db.session.add(new_product); commit; add(owner_access); commit
InsertProductWithOwner(u, parent_id, iteration_number) ==
    /\ products' = [q \in DOMAIN products \cup {nextProductId} |->
                      IF q = nextProductId
                      THEN NewProduct(u, parent_id, iteration_number)
                      ELSE products[q]]
    /\ nextProductId' = nextProductId + 1
    /\ accesses' = accesses (+) SetToBag({[product_id |-> nextProductId,
                                           user_id |-> u, role |-> "owner"]})

\* The response of POST /api/products.
create_product_response(u, named, parent_id) ==
    IF ~named THEN "InvalidInput"
    ELSE IF parent_id # None
            /\ check_product_access(u, parent_id, "editor") # "Granted"
         THEN "NotFound"
         ELSE "OK"

\* POST /api/products
create_product(u, named, parent_id) ==
    LET iteration_number ==
            IF parent_id # None THEN NextIterationNumber(parent_id) ELSE 1
    IN  /\ IF create_product_response(u, named, parent_id) = "OK"
           THEN InsertProductWithOwner(u, parent_id, iteration_number)
           ELSE UNCHANGED <<hierVars, accesses>>
        /\ UNCHANGED <<leafVars, pending, creating, remVars>>
        /\ RecordGiven

create_iteration_response(u, product_id, named) ==
    LET result == check_product_access(u, product_id, "editor")
    IN  IF result # "Granted" THEN AccessStatus(result)
        ELSE IF ~named THEN "InvalidInput"
        ELSE "OK"

\* POST /api/products/<product_id>/iterations
create_iteration(u, product_id, named) ==
    /\ IF create_iteration_response(u, product_id, named) = "OK"
       THEN InsertProductWithOwner(u, product_id, NextIterationNumber(product_id))
       ELSE UNCHANGED <<hierVars, accesses>>
    /\ UNCHANGED <<leafVars, pending, creating, remVars>>
    /\ RecordGiven

(* create_product and create_iteration commit twice; other requests can  *)
(* be served before, between and after the two commits.                   *)

\* The request after its checks and its read of the sibling numbers.
CreationRead(u, parent_id) ==
    [user |-> u, parent_id |-> parent_id,
     iteration_number |-> IF parent_id # None THEN NextIterationNumber(parent_id)
                          ELSE 1,
     pid |-> None]

\* POST /api/products up to db.session.add(new_product)
create_product_begin(u, named, parent_id) ==
    /\ IF create_product_response(u, named, parent_id) = "OK"
       THEN creating' = creating (+) SetToBag({CreationRead(u, parent_id)})
       ELSE UNCHANGED creating
    /\ UNCHANGED <<hierVars, accesses, leafVars, pending, given, remVars>>

\* POST /api/products/<product_id>/iterations up to db.session.add(new_iteration)
create_iteration_begin(u, product_id, named) ==
    /\ IF create_iteration_response(u, product_id, named) = "OK"
       THEN creating' = creating (+) SetToBag({CreationRead(u, product_id)})
       ELSE UNCHANGED creating
    /\ UNCHANGED <<hierVars, accesses, leafVars, pending, given, remVars>>

\* The products table with a unique constraint on (parent_id,
\* iteration_number).
ProductCommit_UniqueNumber(parent_id, iteration_number) ==
    IF parent_id # None
       /\ (~Exists(parent_id)
           \/ \E c \in ChildrenOf(parent_id) :
                 products[c].iteration_number = iteration_number)
    THEN "ServerError"
    ELSE "OK"

\* The commit of the new product: the database checks the foreign key
\* products.parent_id and nothing else.
ProductCommit(parent_id, iteration_number) ==
    IF parent_id # None /\ ~Exists(parent_id) THEN "ServerError" ELSE "OK"

\* db.session.add(new_product); db.session.commit().  The serial gives out
\* an id whether or not the insert commits.
create_insert(req) ==
    /\ req.pid = None
    /\ nextProductId' = nextProductId + 1
    /\ IF ProductCommit(req.parent_id, req.iteration_number) = "OK"
       THEN /\ products' = [q \in DOMAIN products \cup {nextProductId} |->
                              IF q = nextProductId
                              THEN NewProduct(req.user, req.parent_id,
                                              req.iteration_number)
                              ELSE products[q]]
            /\ creating' = (creating (-) SetToBag({req}))
                              (+) SetToBag({[req EXCEPT !.pid = nextProductId]})
       ELSE /\ creating' = creating (-) SetToBag({req})
            /\ UNCHANGED products
    /\ UNCHANGED <<accesses, leafVars, pending, remVars>>
    /\ RecordGiven

\* The commit of the owner row: committed is whether the database commits
\* it; the foreign key to products and the unique constraint are checked.
OwnerCommit(pid, u, committed) ==
    IF ~committed \/ ~Exists(pid) \/ RowsFor(pid, u) # {}
    THEN "ServerError"
    ELSE "OK"

\* db.session.add(owner_access); db.session.commit().  No handler catches
\* a failure and the first commit stays.
create_grant(req, committed) ==
    /\ req.pid # None
    /\ creating' = creating (-) SetToBag({req})
    /\ IF OwnerCommit(req.pid, req.user, committed) = "OK"
       THEN accesses' = accesses (+) SetToBag({[product_id |-> req.pid,
                                               user_id |-> req.user,
                                               role |-> "owner"]})
       ELSE UNCHANGED accesses
    /\ UNCHANGED <<hierVars, leafVars, pending, given, remVars>>

get_product_response(u, product_id) ==
    LET result == check_product_access(u, product_id, "viewer")
    IN  IF result = "Granted" THEN "OK" ELSE AccessStatus(result)

\* get_product with an access check that writes: it stores a viewer row
\* for a caller it found without one.
get_product_CheckStoresRow(u, product_id) ==
    /\ IF check_product_access(u, product_id, "viewer") = "NoRole"
       THEN accesses' = accesses (+) SetToBag({[product_id |-> product_id,
                                               user_id |-> u, role |-> "viewer"]})
       ELSE UNCHANGED accesses
    /\ UNCHANGED <<hierVars, leafVars, pending, creating, given, remVars>>

\* GET /api/products/<product_id>
get_product(u, product_id) ==
    /\ get_product_response(u, product_id) \in {"OK", "Forbidden", "NotFound"}
    /\ UNCHANGED vars

\* parent_in is the body's 'parent_id': Absent, None or a product id.
update_product_response(u, product_id, parent_in) ==
    LET result == check_product_access(u, product_id, "editor")
    IN  IF result # "Granted" THEN AccessStatus(result)
        ELSE IF parent_in \notin {Absent, None}
                /\ check_product_access(u, parent_in, "editor") # "Granted"
             THEN "InvalidOperation"
             ELSE "OK"

\* The product object in the session after the setattr loop; name_in is
\* the body's 'name', Absent when the body has no field of the loop.
FieldsSet(product, name_in) ==
    IF name_in = Absent THEN product ELSE [product EXCEPT !.name = name_in]

\* update_product flushing and committing the fields before it checks the
\* new parent.
update_product_FieldsCommittedFirst(u, product_id, name_in, parent_in) ==
    /\ IF update_product_response(u, product_id, parent_in)
            \in {"OK", "InvalidOperation"}
       THEN products' =
              [products EXCEPT ![product_id] =
                 [FieldsSet(products[product_id], name_in) EXCEPT !.parent_id =
                    IF parent_in = Absent
                       \/ update_product_response(u, product_id, parent_in) # "OK"
                    THEN @ ELSE parent_in]]
       ELSE UNCHANGED products
    /\ UNCHANGED <<nextProductId, accesses, leafVars, pending, creating, given, remVars>>

\* PUT /api/products/<product_id>.  The fields and parent_id are set on
\* the session's object and written by the one db.session.commit() at the
\* end; a return before it leaves the session to shutdown_session, which
\* discards it.
update_product(u, product_id, name_in, parent_in) ==
    /\ IF update_product_response(u, product_id, parent_in) = "OK"
       THEN products' =
              [products EXCEPT ![product_id] =
                 [FieldsSet(products[product_id], name_in) EXCEPT !.parent_id =
                    IF parent_in = Absent THEN @ ELSE parent_in]]
       ELSE UNCHANGED products
    /\ UNCHANGED <<nextProductId, accesses, leafVars, pending, creating, given, remVars>>

\* The products a session.delete(product) reaches through the 'children'
\* relationship (cascade="all, delete-orphan"), the product included.
RECURSIVE Reach(_, _)
Reach(frontier, seen) ==
    IF frontier = {} THEN seen
    ELSE LET new == UNION {ChildrenOf(x) : x \in frontier} \ seen
         IN  Reach(new, seen \cup new)

Cascade(p) == Reach({p}, {p})

Descendants(p) == Reach(ChildrenOf(p), ChildrenOf(p))

\* Rows to delete that depend on each other in a circle (a product below
\* itself after update_product gave it such a parent_id).
Circular(p) == \E d \in Cascade(p) : d \in Descendants(d)

\* The cascade stopping at the product's own children.
DeleteCascade_ChildrenOnly(p) ==
    LET gone == {p} \cup ChildrenOf(p)
        rows == {a \in BagToSet(accesses) : a.product_id \notin gone}
    IN  /\ products' = [q \in DOMAIN products \ gone |-> products[q]]
        /\ accesses' = [a \in rows |-> accesses[a]]
        /\ tasks' = [t \in {x \in DOMAIN tasks : tasks[x].product_id \notin gone} |-> tasks[t]]
        /\ interviews' = [i \in {x \in DOMAIN interviews : interviews[x].product_id \notin gone}
                            |-> interviews[i]]
        /\ reminders' = [r \in {x \in DOMAIN reminders : reminders[x].product_id \notin gone}
                           |-> reminders[r]]

\* The delete cascades of the Product relationships: children, tasks,
\* customer_interviews, product_accesses.
DeleteCascade(p) ==
    LET gone == Cascade(p)
        rows == {a \in BagToSet(accesses) : a.product_id \notin gone}
    IN  /\ products' = [q \in DOMAIN products \ gone |-> products[q]]
        /\ accesses' = [a \in rows |-> accesses[a]]
        /\ tasks' = [t \in {x \in DOMAIN tasks : tasks[x].product_id \notin gone} |-> tasks[t]]
        /\ interviews' = [i \in {x \in DOMAIN interviews : interviews[x].product_id \notin gone}
                            |-> interviews[i]]
        /\ reminders' = [r \in {x \in DOMAIN reminders : reminders[x].product_id \notin gone}
                           |-> reminders[r]]

\* delete_product asking for 'editor' where the code asks for 'owner'.
delete_product_response_EditorMayDelete(u, product_id, flushed) ==
    LET result == check_product_access(u, product_id, "editor")
    IN  IF result # "Granted" THEN AccessStatus(result)
        ELSE IF ~flushed THEN "ServerError"
        ELSE "OK"

\* reminders.task_id is a foreign key to tasks.id that no relationship
\* cascades over: the database refuses to delete a task that a reminder
\* which stays refers to.
TaskReferenced(gone_tasks, gone_products) ==
    \E r \in DOMAIN reminders :
        /\ reminders[r].task_id \in gone_tasks
        /\ reminders[r].product_id \notin gone_products

\* flushed: whether the unit of work orders the deletes and commits.
delete_product_response(u, product_id, flushed) ==
    LET result == check_product_access(u, product_id, "owner")
        gone == Cascade(product_id)
    IN  IF result # "Granted" THEN AccessStatus(result)
        ELSE IF ~flushed THEN "ServerError"
        ELSE IF TaskReferenced({t \in DOMAIN tasks : tasks[t].product_id \in gone}, gone)
             THEN "ServerError"
        ELSE "OK"

\* DELETE /api/products/<product_id>.  The flush can fail only with rows in
\* a circle, where the unit of work may raise instead of ordering them.
delete_product(u, product_id, flushed) ==
    /\ ~flushed => (check_product_access(u, product_id, "owner") = "Granted"
                    /\ Circular(product_id))
    /\ IF delete_product_response(u, product_id, flushed) = "OK"
       THEN DeleteCascade(product_id)
       ELSE UNCHANGED <<products, accesses, tasks, interviews, reminders>>
    /\ UNCHANGED <<nextProductId, nextTaskId, nextInterviewId, nextReminderId,
                   pending, creating>>
    /\ RecordGiven

(* --------------------------- AI documents ----------------------------- *)

\* context['parent'] of get_iteration_context.
ParentSnapshot(parent) ==
    [name |-> parent.name,
     research_document |-> parent.research_document_json,
     prd_document |-> parent.prd_document_json]

\* An entry of context['siblings'].
SiblingSnapshot(sibling) ==
    [name |-> sibling.name,
     iteration_number |-> sibling.iteration_number,
     research_document |-> sibling.research_document_json,
     prd_document |-> sibling.prd_document_json]

\* get_iteration_context without its 'Product.id != self.id' filter.
get_iteration_context_SelfAmongSiblings(self) ==
    LET parent_id == products[self].parent_id
    IN  IF parent_id = None \/ parent_id \notin DOMAIN products THEN <<>>
        ELSE [parent |-> ParentSnapshot(products[parent_id]),
              siblings |-> [q \in {x \in DOMAIN products :
                                      products[x].parent_id = parent_id}
                              |-> SiblingSnapshot(products[q])]]

\* Product.get_iteration_context: the dict it returns, a function of its
\* keys, the empty one for a product without parent; 'siblings' is the
\* list of snapshots, here by the id of the row each was made from.
get_iteration_context(self) ==
    LET parent_id == products[self].parent_id
    IN  IF parent_id = None \/ parent_id \notin DOMAIN products THEN <<>>
        ELSE [parent |-> ParentSnapshot(products[parent_id]),
              siblings |-> [q \in {x \in DOMAIN products :
                                      /\ products[x].parent_id = parent_id
                                      /\ x # self}
                              |-> SiblingSnapshot(products[q])]]

\* The products whose name and document generate_research_document and
\* generate_prd_document write into full_prompt next to the product's own.
PromptProducts(product_id) ==
    LET context == get_iteration_context(product_id)
    IN  IF "parent" \in DOMAIN context
        THEN {products[product_id].parent_id} \cup DOMAIN context.siblings
        ELSE {}

\* product_id is the body's field, None when missing; prompted is whether
\* the body has its text fields; generated is the text of the Gemini
\* response, None when the call raises or the response has no text;
\* committed is whether db.session.commit() returns.
generate_research_document_response(u, product_id, prompted, generated, committed) ==
    LET result == check_product_access(u, product_id, "editor")
    IN  IF product_id = None \/ ~prompted THEN "InvalidInput"
        ELSE IF result # "Granted" THEN AccessStatus(result)
        ELSE IF generated = None \/ ~committed THEN "ServerError"
        ELSE "OK"

\* generate_research_document marking the phase in a commit of its own,
\* before it calls the model.
generate_research_document_StatusFirst(u, product_id, prompted, generated, committed) ==
    LET response == generate_research_document_response(u, product_id, prompted,
                                                        generated, committed)
    IN  /\ IF response \in {"OK", "ServerError"}
           THEN products' =
                  [products EXCEPT ![product_id] =
                     [@ EXCEPT !.research_status = "Completed",
                               !.research_document_json =
                                   IF response = "OK" THEN generated ELSE @]]
           ELSE UNCHANGED products
        /\ UNCHANGED <<nextProductId, accesses, leafVars, pending, creating, given, remVars>>

\* POST /api/generate-research-document: text and status are set on the
\* session's object and written by one commit; the except branch rolls
\* the session back.
generate_research_document(u, product_id, prompted, generated, committed) ==
    /\ IF generate_research_document_response(u, product_id, prompted, generated,
                                              committed) = "OK"
       THEN products' = [products EXCEPT ![product_id] =
                           [@ EXCEPT !.research_document_json = generated,
                                     !.research_status = "Completed"]]
       ELSE UNCHANGED products
    /\ UNCHANGED <<nextProductId, accesses, leafVars, pending, creating, given, remVars>>

generate_prd_document_response(u, product_id, prompted, generated, committed) ==
    LET result == check_product_access(u, product_id, "editor")
    IN  IF product_id = None \/ ~prompted THEN "InvalidInput"
        ELSE IF result # "Granted" THEN AccessStatus(result)
        ELSE IF generated = None \/ ~committed THEN "ServerError"
        ELSE "OK"

\* POST /api/generate-prd-document
generate_prd_document(u, product_id, prompted, generated, committed) ==
    /\ IF generate_prd_document_response(u, product_id, prompted, generated,
                                         committed) = "OK"
       THEN products' = [products EXCEPT ![product_id] =
                           [@ EXCEPT !.prd_document_json = generated,
                                     !.prd_status = "Completed"]]
       ELSE UNCHANGED products
    /\ UNCHANGED <<nextProductId, accesses, leafVars, pending, creating, given, remVars>>

(* ------------------------- tasks and interviews ----------------------- *)

\* create_task giving 'viewer' as the required role.
create_task_response_ViewerMayCreate(u, product_id, titled) ==
    LET result == check_product_access(u, product_id, "viewer")
    IN  IF result # "Granted" THEN AccessStatus(result)
        ELSE IF ~titled THEN "InvalidInput"
        ELSE "OK"

create_task_response(u, product_id, titled) ==
    LET result == check_product_access(u, product_id, "editor")
    IN  IF result # "Granted" THEN AccessStatus(result)
        ELSE IF ~titled THEN "InvalidInput"
        ELSE "OK"

\* POST /api/products/<product_id>/tasks
create_task(u, product_id, titled) ==
    /\ IF create_task_response(u, product_id, titled) = "OK"
       THEN /\ tasks' = [t \in DOMAIN tasks \cup {nextTaskId} |->
                           IF t = nextTaskId
                           THEN [product_id |-> product_id, title |-> 1]
                           ELSE tasks[t]]
            /\ nextTaskId' = nextTaskId + 1
       ELSE UNCHANGED <<tasks, nextTaskId>>
    /\ UNCHANGED <<hierVars, accesses, interviews, nextInterviewId, pending, creating, given, remVars>>

\* product_id is the body's field, None when missing; dated is whether
\* 'interview_date' parses.
create_customer_interview_response(u, product_id, named, dated) ==
    LET result == check_product_access(u, product_id, "editor")
    IN  IF product_id = None \/ ~named THEN "InvalidInput"
        ELSE IF result # "Granted" THEN AccessStatus(result)
        ELSE IF ~dated THEN "InvalidInput"
        ELSE "OK"

\* POST /api/customer_interviews
create_customer_interview(u, product_id, named, dated) ==
    /\ IF create_customer_interview_response(u, product_id, named, dated) = "OK"
       THEN /\ interviews' = [i \in DOMAIN interviews \cup {nextInterviewId} |->
                                IF i = nextInterviewId
                                THEN [product_id |-> product_id,
                                      customer_name |-> 1,
                                      ai_summary_json |-> None]
                                ELSE interviews[i]]
            /\ nextInterviewId' = nextInterviewId + 1
       ELSE UNCHANGED <<interviews, nextInterviewId>>
    /\ UNCHANGED <<hierVars, accesses, tasks, nextTaskId, pending, creating, given, remVars>>

\* Task ids and interview ids a request can name: the ids given out and
\* the next one, which names no row.
TaskIds == 1 .. nextTaskId

InterviewIds == 1 .. nextInterviewId

\* The access check of a handler that looked its task up by id.
TaskAccess(u, task_id, required_role) ==
    IF task_id \notin DOMAIN tasks THEN "NotFound"
    ELSE check_product_access(u, tasks[task_id].product_id, required_role)

get_task_response(u, task_id) ==
    LET result == TaskAccess(u, task_id, "viewer")
    IN  IF result = "Granted" THEN "OK" ELSE AccessStatus(result)

\* GET /api/tasks/<task_id>
get_task(u, task_id) ==
    /\ get_task_response(u, task_id) \in {"OK", "Forbidden", "NotFound"}
    /\ UNCHANGED vars

get_tasks_for_product_response(u, product_id) ==
    LET result == check_product_access(u, product_id, "viewer")
    IN  IF result = "Granted" THEN "OK" ELSE AccessStatus(result)

\* GET /api/products/<product_id>/tasks
get_tasks_for_product(u, product_id) ==
    /\ get_tasks_for_product_response(u, product_id) \in {"OK", "Forbidden", "NotFound"}
    /\ UNCHANGED vars

\* GET /api/tasks: the tasks of the products the user owns or has a grant
\* row on.
get_all_tasks(u) ==
    LET owned_products == {p \in DOMAIN products : products[p].user_id = u}
        accessed_products_ids == {a.product_id : a \in {b \in BagToSet(accesses) : b.user_id = u}}
        product_ids == owned_products \cup (accessed_products_ids \cap DOMAIN products)
    IN  {t \in DOMAIN tasks : tasks[t].product_id \in product_ids}

\* update_task giving 'viewer' as the required role.
update_task_response_ViewerMayUpdate(u, task_id, dated) ==
    LET result == TaskAccess(u, task_id, "viewer")
    IN  IF result # "Granted" THEN AccessStatus(result)
        ELSE IF ~dated THEN "InvalidInput"
        ELSE "OK"

\* dated is whether the body's 'due_date', when given, parses.
update_task_response(u, task_id, dated) ==
    LET result == TaskAccess(u, task_id, "editor")
    IN  IF result # "Granted" THEN AccessStatus(result)
        ELSE IF ~dated THEN "InvalidInput"
        ELSE "OK"

\* PUT /api/tasks/<task_id>; title_in is the body's 'title', Absent when
\* the body has none.  The fields set before a 400 are never committed.
update_task(u, task_id, title_in, dated) ==
    /\ IF update_task_response(u, task_id, dated) = "OK"
       THEN tasks' = [tasks EXCEPT ![task_id] =
                        [@ EXCEPT !.title = IF title_in = Absent THEN @ ELSE title_in]]
       ELSE UNCHANGED tasks
    /\ UNCHANGED <<hierVars, accesses, nextTaskId, interviews, nextInterviewId,
                   pending, creating, given, remVars>>

\* delete_task without the foreign key of reminders.task_id.
delete_task_response_NoForeignKey(u, task_id) ==
    LET result == TaskAccess(u, task_id, "editor")
    IN  IF result = "Granted" THEN "OK" ELSE AccessStatus(result)

\* The commit fails on the foreign key of a reminder that refers to the
\* task.
delete_task_response(u, task_id) ==
    LET result == TaskAccess(u, task_id, "editor")
    IN  IF result # "Granted" THEN AccessStatus(result)
        ELSE IF TaskReferenced({task_id}, {}) THEN "ServerError"
        ELSE "OK"

\* DELETE /api/tasks/<task_id>
delete_task(u, task_id) ==
    /\ IF delete_task_response(u, task_id) = "OK"
       THEN tasks' = [t \in DOMAIN tasks \ {task_id} |-> tasks[t]]
       ELSE UNCHANGED tasks
    /\ UNCHANGED <<hierVars, accesses, nextTaskId, interviews, nextInterviewId,
                   pending, creating, given, remVars>>

\* The access check of a handler that looked its interview up by id.
InterviewAccess(u, interview_id, required_role) ==
    IF interview_id \notin DOMAIN interviews THEN "NotFound"
    ELSE check_product_access(u, interviews[interview_id].product_id, required_role)

get_customer_interview_response(u, interview_id) ==
    LET result == InterviewAccess(u, interview_id, "viewer")
    IN  IF result = "Granted" THEN "OK" ELSE AccessStatus(result)

\* GET /api/customer_interviews/<interview_id>
get_customer_interview(u, interview_id) ==
    /\ get_customer_interview_response(u, interview_id) \in {"OK", "Forbidden", "NotFound"}
    /\ UNCHANGED vars

get_interviews_for_product_response(u, product_id) ==
    LET result == check_product_access(u, product_id, "viewer")
    IN  IF result = "Granted" THEN "OK" ELSE AccessStatus(result)

\* GET /api/customer_interviews/product/<product_id>
get_interviews_for_product(u, product_id) ==
    /\ get_interviews_for_product_response(u, product_id) \in {"OK", "Forbidden", "NotFound"}
    /\ UNCHANGED vars

\* dated is whether the body's 'interview_date', when given, parses.
update_customer_interview_response(u, interview_id, dated) ==
    LET result == InterviewAccess(u, interview_id, "editor")
    IN  IF result # "Granted" THEN AccessStatus(result)
        ELSE IF ~dated THEN "InvalidInput"
        ELSE "OK"

\* PUT /api/customer_interviews/<interview_id>; name_in is the body's
\* 'customer_name', Absent when the body has none.
update_customer_interview(u, interview_id, name_in, dated) ==
    /\ IF update_customer_interview_response(u, interview_id, dated) = "OK"
       THEN interviews' = [interviews EXCEPT ![interview_id] =
                             [@ EXCEPT !.customer_name =
                                  IF name_in = Absent THEN @ ELSE name_in]]
       ELSE UNCHANGED interviews
    /\ UNCHANGED <<hierVars, accesses, tasks, nextTaskId, nextInterviewId,
                   pending, creating, given, remVars>>

delete_customer_interview_response(u, interview_id) ==
    LET result == InterviewAccess(u, interview_id, "editor")
    IN  IF result = "Granted" THEN "OK" ELSE AccessStatus(result)

\* DELETE /api/customer_interviews/<interview_id>
delete_customer_interview(u, interview_id) ==
    /\ IF delete_customer_interview_response(u, interview_id) = "OK"
       THEN interviews' = [i \in DOMAIN interviews \ {interview_id} |-> interviews[i]]
       ELSE UNCHANGED interviews
    /\ UNCHANGED <<hierVars, accesses, tasks, nextTaskId, nextInterviewId,
                   pending, creating, given, remVars>>

\* interview_id is the body's field, None when missing; noted is whether
\* the body has 'notes_content'; generated is the model's text, None when
\* the call raises; committed is whether the database commits.
generate_interview_summary_response(u, interview_id, noted, generated, committed) ==
    LET result == InterviewAccess(u, interview_id, "editor")
    IN  IF interview_id = None \/ ~noted THEN "InvalidInput"
        ELSE IF result # "Granted" THEN AccessStatus(result)
        ELSE IF generated = None \/ ~committed THEN "ServerError"
        ELSE "OK"

\* POST /api/customer_interviews/generate_summary
generate_interview_summary(u, interview_id, noted, generated, committed) ==
    /\ IF generate_interview_summary_response(u, interview_id, noted, generated,
                                              committed) = "OK"
       THEN interviews' = [interviews EXCEPT ![interview_id] =
                             [@ EXCEPT !.ai_summary_json = generated]]
       ELSE UNCHANGED interviews
    /\ UNCHANGED <<hierVars, accesses, tasks, nextTaskId, nextInterviewId,
                   pending, creating, given, remVars>>

(* ----------------------------- reminders ------------------------------ *)

ReminderIds == 1 .. nextReminderId

\* Reminder.query.filter_by(id=reminder_id, user_id=current_user.id).first()
OwnReminder(u, reminder_id) ==
    reminder_id \in DOMAIN reminders /\ reminders[reminder_id].user_id = u

\* GET /api/reminders: the reminders it returns.
get_reminders(u) == {r \in DOMAIN reminders : reminders[r].user_id = u}

\* product_id and task_id are the body's fields, None when missing; given_
\* is whether the body has 'title' and 'reminder_date'; dated is whether
\* the date parses.  The commit checks the two foreign keys.
create_reminder_response(u, product_id, task_id, given_, dated) ==
    LET result == check_product_access(u, product_id, "viewer")
    IN  IF ~given_ THEN "InvalidInput"
        ELSE IF product_id # None /\ result # "Granted" THEN AccessStatus(result)
        ELSE IF ~dated THEN "InvalidInput"
        ELSE IF product_id # None /\ ~Exists(product_id) THEN "ServerError"
        ELSE IF task_id # None /\ task_id \notin DOMAIN tasks THEN "ServerError"
        ELSE "OK"

\* POST /api/reminders
create_reminder(u, product_id, task_id, given_, dated) ==
    /\ IF create_reminder_response(u, product_id, task_id, given_, dated) = "OK"
       THEN /\ reminders' = [r \in DOMAIN reminders \cup {nextReminderId} |->
                               IF r = nextReminderId
                               THEN [user_id |-> u, product_id |-> product_id,
                                     task_id |-> task_id, title |-> 1,
                                     is_acknowledged |-> FALSE, is_snoozed |-> FALSE]
                               ELSE reminders[r]]
            /\ nextReminderId' = nextReminderId + 1
       ELSE UNCHANGED remVars
    /\ UNCHANGED <<hierVars, accesses, leafVars, pending, creating, given>>

\* dated is whether the body's dates, when given, parse.
update_reminder_response(u, reminder_id, dated) ==
    IF ~OwnReminder(u, reminder_id) THEN "NotFound"
    ELSE IF ~dated THEN "InvalidInput"
    ELSE "OK"

\* PUT /api/reminders/<reminder_id>; title_in is the body's 'title', Absent
\* when the body has none.
update_reminder(u, reminder_id, title_in, dated) ==
    /\ IF update_reminder_response(u, reminder_id, dated) = "OK"
       THEN reminders' = [reminders EXCEPT ![reminder_id] =
                            [@ EXCEPT !.title = IF title_in = Absent THEN @ ELSE title_in]]
       ELSE UNCHANGED reminders
    /\ UNCHANGED <<hierVars, accesses, leafVars, pending, creating, given, nextReminderId>>

delete_reminder_response(u, reminder_id) ==
    IF ~OwnReminder(u, reminder_id) THEN "NotFound" ELSE "OK"

\* DELETE /api/reminders/<reminder_id>
delete_reminder(u, reminder_id) ==
    /\ IF delete_reminder_response(u, reminder_id) = "OK"
       THEN reminders' = [r \in DOMAIN reminders \ {reminder_id} |-> reminders[r]]
       ELSE UNCHANGED reminders
    /\ UNCHANGED <<hierVars, accesses, leafVars, pending, creating, given, nextReminderId>>

acknowledge_reminder_response(u, reminder_id) ==
    IF ~OwnReminder(u, reminder_id) THEN "NotFound" ELSE "OK"

\* POST /api/reminders/<reminder_id>/acknowledge
acknowledge_reminder(u, reminder_id) ==
    /\ IF acknowledge_reminder_response(u, reminder_id) = "OK"
       THEN reminders' = [reminders EXCEPT ![reminder_id] =
                            [@ EXCEPT !.is_acknowledged = TRUE, !.is_snoozed = FALSE]]
       ELSE UNCHANGED reminders
    /\ UNCHANGED <<hierVars, accesses, leafVars, pending, creating, given, nextReminderId>>

\* dated is whether the body has a 'snooze_until' that parses.
snooze_reminder_response(u, reminder_id, dated) ==
    IF ~OwnReminder(u, reminder_id) THEN "NotFound"
    ELSE IF ~dated THEN "InvalidInput"
    ELSE "OK"

\* POST /api/reminders/<reminder_id>/snooze
snooze_reminder(u, reminder_id, dated) ==
    /\ IF snooze_reminder_response(u, reminder_id, dated) = "OK"
       THEN reminders' = [reminders EXCEPT ![reminder_id] =
                            [@ EXCEPT !.is_snoozed = TRUE]]
       ELSE UNCHANGED reminders
    /\ UNCHANGED <<hierVars, accesses, leafVars, pending, creating, given, nextReminderId>>

(* --------------------------- access grants ---------------------------- *)

\* The table without its unique constraint.
UniqueViolation_NoConstraint(p, u) == FALSE

\* UniqueConstraint('product_id', 'user_id', name='_product_user_uc'):
\* whether inserting a row for (p, u) breaks it.
UniqueViolation(p, u) == RowsFor(p, u) # {}

\* invite_user_to_product taking 'owner' as a role to grant.
InviteChecks_OwnerAccepted(u, product_id, user_email, role) ==
    LET result == check_product_access(u, product_id, "owner")
    IN  IF result # "Granted" THEN AccessStatus(result)
        ELSE IF user_email = Absent \/ role = "none" THEN "InvalidInput"
        ELSE IF role \notin {"editor", "viewer", "owner"} THEN "InvalidInput"
        ELSE IF user_email \notin Users THEN "NotFound"
        ELSE IF user_email = u THEN "InvalidOperation"
        ELSE IF RowsFor(product_id, user_email) # {} THEN "Conflict"
        ELSE "Insert"

\* invite_user_to_product without its existing_access check.
InviteChecks_NoExistingCheck(u, product_id, user_email, role) ==
    LET result == check_product_access(u, product_id, "owner")
    IN  IF result # "Granted" THEN AccessStatus(result)
        ELSE IF user_email = Absent \/ role = "none" THEN "InvalidInput"
        ELSE IF role \notin {"editor", "viewer"} THEN "InvalidInput"
        ELSE IF user_email \notin Users THEN "NotFound"
        ELSE IF user_email = u THEN "InvalidOperation"
        ELSE "Insert"

\* invite_user_to_product asking for 'editor' where the code asks for 'owner'.
InviteChecks_EditorMayInvite(u, product_id, user_email, role) ==
    LET result == check_product_access(u, product_id, "editor")
    IN  IF result # "Granted" THEN AccessStatus(result)
        ELSE IF user_email = Absent \/ role = "none" THEN "InvalidInput"
        ELSE IF role \notin {"editor", "viewer"} THEN "InvalidInput"
        ELSE IF user_email \notin Users THEN "NotFound"
        ELSE IF user_email = u THEN "InvalidOperation"
        ELSE IF RowsFor(product_id, user_email) # {} THEN "Conflict"
        ELSE "Insert"

\* invite_user_to_product up to its insert: every early return, in the
\* order of the code.  "Insert" is reaching db.session.add(new_access).
InviteChecks(u, product_id, user_email, role) ==
    LET result == check_product_access(u, product_id, "owner")
    IN  IF result # "Granted" THEN AccessStatus(result)
        ELSE IF user_email = Absent \/ role = "none" THEN "InvalidInput"
        ELSE IF role \notin {"editor", "viewer"} THEN "InvalidInput"
        ELSE IF user_email \notin Users THEN "NotFound"
        ELSE IF user_email = u THEN "InvalidOperation"
        ELSE IF RowsFor(product_id, user_email) # {} THEN "Conflict"
        ELSE "Insert"

\* The commit of the new row: the foreign key to products and the unique
\* constraint are checked by the database.
InviteCommit(product_id, target) ==
    IF ~Exists(product_id) \/ UniqueViolation(product_id, target)
    THEN "ServerError"
    ELSE "OK"

AddAccess(product_id, target, role) ==
    accesses' = accesses (+) SetToBag({[product_id |-> product_id,
                                        user_id |-> target, role |-> role]})

invite_user_to_product_response(u, product_id, user_email, role) ==
    LET checks == InviteChecks(u, product_id, user_email, role)
    IN  IF checks = "Insert" THEN InviteCommit(product_id, user_email) ELSE checks

\* POST /api/products/<product_id>/access, served with no other request in
\* between.
invite_user_to_product(u, product_id, user_email, role) ==
    /\ IF invite_user_to_product_response(u, product_id, user_email, role) = "OK"
       THEN AddAccess(product_id, user_email, role)
       ELSE UNCHANGED accesses
    /\ UNCHANGED <<hierVars, leafVars, pending, creating, given, remVars>>

\* update_user_product_role without its 'user_id == current_user.id' return.
update_user_product_role_response_NoSelfCheck(u, product_id, user_id, new_role) ==
    LET result == check_product_access(u, product_id, "owner")
    IN  IF result # "Granted" THEN AccessStatus(result)
        ELSE IF new_role = "none" THEN "InvalidInput"
        ELSE IF new_role \notin {"editor", "viewer", "owner"} THEN "InvalidInput"
        ELSE IF RowsFor(product_id, user_id) = {} THEN "NotFound"
        ELSE "OK"

update_user_product_role_response(u, product_id, user_id, new_role) ==
    LET result == check_product_access(u, product_id, "owner")
    IN  IF result # "Granted" THEN AccessStatus(result)
        ELSE IF new_role = "none" THEN "InvalidInput"
        ELSE IF new_role \notin {"editor", "viewer", "owner"} THEN "InvalidInput"
        ELSE IF user_id = u THEN "InvalidOperation"
        ELSE IF RowsFor(product_id, user_id) = {} THEN "NotFound"
        ELSE "OK"

\* update_user_product_role making the user who is given 'owner' the
\* product's user_id.
update_user_product_role_OwnerTransferred(u, product_id, user_id, new_role) ==
    /\ IF update_user_product_role_response(u, product_id, user_id, new_role) = "OK"
       THEN LET access == CHOOSE a \in RowsFor(product_id, user_id) : TRUE
            IN  /\ accesses' = (accesses (-) SetToBag({access}))
                                 (+) SetToBag({[access EXCEPT !.role = new_role]})
                /\ products' = IF new_role = "owner"
                               THEN [products EXCEPT ![product_id].user_id = user_id]
                               ELSE products
       ELSE UNCHANGED <<accesses, products>>
    /\ UNCHANGED <<nextProductId, leafVars, pending, creating, given, remVars>>

\* PUT /api/products/<product_id>/access/<user_id>
update_user_product_role(u, product_id, user_id, new_role) ==
    /\ IF update_user_product_role_response(u, product_id, user_id, new_role) = "OK"
       THEN LET access == CHOOSE a \in RowsFor(product_id, user_id) : TRUE
            IN  accesses' = (accesses (-) SetToBag({access}))
                              (+) SetToBag({[access EXCEPT !.role = new_role]})
       ELSE UNCHANGED accesses
    /\ UNCHANGED <<hierVars, leafVars, pending, creating, given, remVars>>

remove_user_from_product_response(u, product_id, user_id) ==
    LET result == check_product_access(u, product_id, "owner")
    IN  IF result # "Granted" THEN AccessStatus(result)
        ELSE IF user_id = u THEN "InvalidOperation"
        ELSE IF RowsFor(product_id, user_id) = {} THEN "NotFound"
        ELSE "OK"

\* DELETE /api/products/<product_id>/access/<user_id>
remove_user_from_product(u, product_id, user_id) ==
    /\ IF remove_user_from_product_response(u, product_id, user_id) = "OK"
       THEN LET access == CHOOSE a \in RowsFor(product_id, user_id) : TRUE
            IN  accesses' = accesses (-) SetToBag({access})
       ELSE UNCHANGED accesses
    /\ UNCHANGED <<hierVars, leafVars, pending, creating, given, remVars>>

\* invite_user_to_product when other requests run between its checks and
\* its commit: the checks, which leave the request waiting to commit ...
invite_begin(u, product_id, user_email, role) ==
    /\ IF InviteChecks(u, product_id, user_email, role) = "Insert"
       THEN pending' = pending (+) SetToBag({[user |-> u, pid |-> product_id,
                                              target |-> user_email, role |-> role]})
       ELSE UNCHANGED pending
    /\ UNCHANGED <<hierVars, accesses, leafVars, creating, given, remVars>>

\* ... and db.session.add(new_access); db.session.commit()
invite_commit(req) ==
    /\ pending' = pending (-) SetToBag({req})
    /\ IF InviteCommit(req.pid, req.target) = "OK"
       THEN AddAccess(req.pid, req.target, req.role)
       ELSE UNCHANGED accesses
    /\ UNCHANGED <<hierVars, leafVars, creating, given, remVars>>

(* --------------------------- specifications --------------------------- *)

\* An empty database with NumUsers registered users.
Init ==
    /\ products = <<>>
    /\ nextProductId = 1
    /\ accesses = EmptyBag
    /\ tasks = <<>>
    /\ nextTaskId = 1
    /\ interviews = <<>>
    /\ nextInterviewId = 1
    /\ pending = EmptyBag
    /\ creating = EmptyBag
    /\ given = NoHistory
    /\ reminders = <<>>
    /\ nextReminderId = 1

\* POST /api/products and POST /api/products/<id>/iterations, while the
\* serial is at most maxp and the grant table holds fewer than maxa rows.
CreateRequests(maxp, maxa) ==
    /\ nextProductId <= maxp
    /\ AccessCount + BagCardinality(pending) < maxa
    /\ \/ \E u \in Users, named \in BOOLEAN, parent_id \in {None} \cup ProductIds :
            create_product(u, named, parent_id)
       \/ \E u \in Users, p \in ProductIds, named \in BOOLEAN :
            create_iteration(u, p, named)

ReadDeleteRequests ==
    \/ \E u \in Users, p \in ProductIds : get_product(u, p)
    \/ \E u \in Users, p \in ProductIds, flushed \in BOOLEAN :
         delete_product(u, p, flushed)

\* PUT /api/products/<id> with a 'name' field drawn from names.
UpdateRequests(names) ==
    \E u \in Users, p \in ProductIds, name_in \in names,
       parent_in \in {Absent, None} \cup ProductIds :
        update_product(u, p, name_in, parent_in)

LeafRequests(maxt, maxi) ==
    \/ \E u \in Users, p \in ProductIds, titled \in BOOLEAN :
         nextTaskId <= maxt /\ create_task(u, p, titled)
    \/ \E u \in Users, p \in {None} \cup ProductIds, named \in BOOLEAN, dated \in BOOLEAN :
         nextInterviewId <= maxi /\ create_customer_interview(u, p, named, dated)

LeafReadRequests ==
    \/ \E u \in Users, t \in TaskIds : get_task(u, t)
    \/ \E u \in Users, p \in ProductIds : get_tasks_for_product(u, p)
    \/ \E u \in Users, i \in InterviewIds : get_customer_interview(u, i)
    \/ \E u \in Users, p \in ProductIds : get_interviews_for_product(u, p)

LeafWriteRequests ==
    \/ \E u \in Users, t \in TaskIds, title_in \in {Absent} \cup Names, dated \in BOOLEAN :
         update_task(u, t, title_in, dated)
    \/ \E u \in Users, t \in TaskIds : delete_task(u, t)
    \/ \E u \in Users, i \in InterviewIds, name_in \in {Absent} \cup Names,
          dated \in BOOLEAN :
         update_customer_interview(u, i, name_in, dated)
    \/ \E u \in Users, i \in InterviewIds : delete_customer_interview(u, i)
    \/ \E u \in Users, i \in {None} \cup InterviewIds, noted \in BOOLEAN,
          generated \in {None} \cup Texts, committed \in BOOLEAN :
         generate_interview_summary(u, i, noted, generated, committed)

RoleRequests ==
    \/ \E u \in Users, p \in ProductIds, t \in Users, r \in RoleInputs :
         update_user_product_role(u, p, t, r)
    \/ \E u \in Users, p \in ProductIds, t \in Users :
         remove_user_from_product(u, p, t)

InviteRequests(maxa) ==
    \E u \in Users, p \in ProductIds, e \in {Absent} \cup EmailInputs, r \in RoleInputs :
        /\ AccessCount < maxa
        /\ invite_user_to_product(u, p, e, r)

\* Every request is served from its first line to its response before the
\* next one starts.  Spec: the product and grant requests.
Next ==
    \/ CreateRequests(MaxProducts, MaxAccess)
    \/ ReadDeleteRequests
    \/ UpdateRequests({Absent})
    \/ RoleRequests
    \/ InviteRequests(MaxAccess)

Spec == Init /\ [][Next]_vars

\* SpecAll: every request of the model.
NextAll ==
    \/ CreateRequests(MaxProducts, MaxAccess)
    \/ ReadDeleteRequests
    \/ UpdateRequests({Absent})
    \/ LeafRequests(MaxTasks, MaxInterviews)
    \/ RoleRequests
    \/ InviteRequests(MaxAccess)

SpecAll == Init /\ [][NextAll]_vars

\* SpecLeaf: the task and interview requests on products shared with a
\* viewer or an editor.
NextLeaf ==
    \/ CreateRequests(MaxProducts, MaxAccess)
    \/ ReadDeleteRequests
    \/ InviteRequests(MaxAccess)
    \/ LeafRequests(MaxLeafTasks, MaxLeafInterviews)
    \/ LeafReadRequests
    \/ LeafWriteRequests

SpecLeaf == Init /\ [][NextLeaf]_vars

\* SpecCascade: the product tree with tasks and interviews, every product
\* with the owner row of its creator.
NextCascade ==
    \/ CreateRequests(MaxCascadeProducts, MaxCascadeProducts + 1)
    \/ ReadDeleteRequests
    \/ UpdateRequests({Absent})
    \/ LeafRequests(MaxTasks, MaxInterviews)

SpecCascade == Init /\ [][NextCascade]_vars

\* SpecTree: the product tree alone, with room for three children.
NextTree ==
    \/ CreateRequests(MaxTreeProducts, MaxTreeProducts + 1)
    \/ ReadDeleteRequests
    \/ UpdateRequests({Absent})

SpecTree == Init /\ [][NextTree]_vars

\* SpecConc: invites overlap; other requests are served between an
\* invite's checks and its commit.
NextConc ==
    \/ CreateRequests(MaxProducts, MaxAccess)
    \/ ReadDeleteRequests
    \/ RoleRequests
    \/ \E u \in Users, p \in ProductIds, e \in {Absent} \cup EmailInputs, r \in RoleInputs :
         /\ AccessCount + BagCardinality(pending) < MaxAccess
         /\ BagCardinality(pending) < MaxPending
         /\ invite_begin(u, p, e, r)
    \/ \E req \in BagToSet(pending) : invite_commit(req)

SpecConc == Init /\ [][NextConc]_vars

\* Creation requests that have not inserted their product yet.
Unwritten == BagCardinality([r \in {x \in BagToSet(creating) : x.pid = None}
                               |-> creating[r]])

\* SpecCreate: creations overlap; other requests are served before,
\* between and after the two commits of a creation.
NextCreate ==
    \/ \E u \in Users, named \in BOOLEAN, parent_id \in {None} \cup ProductIds :
         /\ nextProductId + Unwritten <= MaxCascadeProducts
         /\ BagCardinality(creating) < MaxCreating
         /\ create_product_begin(u, named, parent_id)
    \/ \E u \in Users, p \in ProductIds, named \in BOOLEAN :
         /\ nextProductId + Unwritten <= MaxCascadeProducts
         /\ BagCardinality(creating) < MaxCreating
         /\ create_iteration_begin(u, p, named)
    \/ \E req \in BagToSet(creating) : create_insert(req)
    \/ \E req \in BagToSet(creating), committed \in BOOLEAN :
         create_grant(req, committed)
    \/ ReadDeleteRequests

SpecCreate == Init /\ [][NextCreate]_vars

DocumentRequests ==
    \/ \E u \in Users, p \in {None} \cup ProductIds, prompted \in BOOLEAN,
          generated \in {None} \cup Texts, committed \in BOOLEAN :
         generate_research_document(u, p, prompted, generated, committed)
    \/ \E u \in Users, p \in {None} \cup ProductIds, prompted \in BOOLEAN,
          generated \in {None} \cup Texts, committed \in BOOLEAN :
         generate_prd_document(u, p, prompted, generated, committed)

\* SpecFields: products are renamed and moved; invites make editors.
NextFields ==
    \/ CreateRequests(MaxProducts, MaxAccess)
    \/ ReadDeleteRequests
    \/ UpdateRequests({Absent} \cup Names)
    \/ InviteRequests(MaxAccess)

SpecFields == Init /\ [][NextFields]_vars

\* SpecDocs: the two document generators on the products of two users.
NextDocs ==
    \/ CreateRequests(MaxProducts, MaxAccess)
    \/ ReadDeleteRequests
    \/ DocumentRequests

SpecDocs == Init /\ [][NextDocs]_vars

\* The requests that write a name, a document, a task or an interview,
\* sent by callers whom the access check does not grant 'editor'.
DeniedWriteRequests ==
    \/ \E u \in Users, p \in ProductIds, name_in \in Names,
          parent_in \in {Absent, None} \cup ProductIds :
         /\ check_product_access(u, p, "editor") # "Granted"
         /\ update_product(u, p, name_in, parent_in)
    \/ \E u \in Users, p \in ProductIds, generated \in Texts :
         /\ check_product_access(u, p, "editor") # "Granted"
         /\ generate_research_document(u, p, TRUE, generated, TRUE)
    \/ \E u \in Users, p \in ProductIds, generated \in Texts :
         /\ check_product_access(u, p, "editor") # "Granted"
         /\ generate_prd_document(u, p, TRUE, generated, TRUE)
    \/ \E u \in Users, t \in TaskIds, title_in \in Names :
         /\ TaskAccess(u, t, "editor") # "Granted"
         /\ update_task(u, t, title_in, TRUE)
    \/ \E u \in Users, t \in TaskIds :
         /\ TaskAccess(u, t, "editor") # "Granted"
         /\ delete_task(u, t)
    \/ \E u \in Users, i \in InterviewIds, name_in \in Names :
         /\ InterviewAccess(u, i, "editor") # "Granted"
         /\ update_customer_interview(u, i, name_in, TRUE)
    \/ \E u \in Users, i \in InterviewIds :
         /\ InterviewAccess(u, i, "editor") # "Granted"
         /\ delete_customer_interview(u, i)
    \/ \E u \in Users, i \in InterviewIds, generated \in Texts :
         /\ InterviewAccess(u, i, "editor") # "Granted"
         /\ generate_interview_summary(u, i, TRUE, generated, TRUE)

\* The invites and role updates that make a user a viewer or an editor,
\* and the removals.
SharingRequests(maxa) ==
    \/ \E u \in Users, p \in ProductIds, e \in Users, r \in {"viewer", "editor"} :
         /\ AccessCount < maxa
         /\ invite_user_to_product(u, p, e, r)
    \/ \E u \in Users, p \in ProductIds, t \in Users, r \in {"viewer", "editor"} :
         update_user_product_role(u, p, t, r)
    \/ \E u \in Users, p \in ProductIds, t \in Users :
         remove_user_from_product(u, p, t)

\* SpecViewer: products with tasks and interviews, shared with viewers and
\* editors, and the writing requests of the callers who are not editors.
NextViewer ==
    \/ CreateRequests(MaxProducts, MaxViewerAccess)
    \/ ReadDeleteRequests
    \/ UpdateRequests({Absent})
    \/ LeafRequests(MaxTasks, MaxInterviews)
    \/ SharingRequests(MaxViewerAccess)
    \/ DeniedWriteRequests

SpecViewer == Init /\ [][NextViewer]_vars

ReminderRequests(maxr) ==
    \/ \E u \in Users, p \in {None} \cup ProductIds, t \in {None} \cup TaskIds,
          given_ \in BOOLEAN, dated \in BOOLEAN :
         /\ nextReminderId <= maxr
         /\ create_reminder(u, p, t, given_, dated)
    \/ \E u \in Users, r \in ReminderIds, title_in \in {Absent} \cup Names,
          dated \in BOOLEAN :
         update_reminder(u, r, title_in, dated)
    \/ \E u \in Users, r \in ReminderIds : delete_reminder(u, r)
    \/ \E u \in Users, r \in ReminderIds : acknowledge_reminder(u, r)
    \/ \E u \in Users, r \in ReminderIds, dated \in BOOLEAN : snooze_reminder(u, r, dated)

\* SpecRemind: reminders on shared products and on their tasks.
NextRemind ==
    \/ CreateRequests(MaxProducts, MaxAccess)
    \/ ReadDeleteRequests
    \/ SharingRequests(MaxAccess)
    \/ LeafRequests(MaxTasks, MaxInterviews)
    \/ \E u \in Users, t \in TaskIds : delete_task(u, t)
    \/ ReminderRequests(MaxReminders)

SpecRemind == Init /\ [][NextRemind]_vars

\* SpecOrder: creations and deletions served one at a time, with the
\* history of the numbers given.
InitOrder ==
    /\ products = <<>>
    /\ nextProductId = 1
    /\ accesses = EmptyBag
    /\ tasks = <<>>
    /\ nextTaskId = 1
    /\ interviews = <<>>
    /\ nextInterviewId = 1
    /\ pending = EmptyBag
    /\ creating = EmptyBag
    /\ given = <<>>
    /\ reminders = <<>>
    /\ nextReminderId = 1

NextOrder ==
    \/ CreateRequests(MaxTreeProducts, MaxTreeProducts + 1)
    \/ ReadDeleteRequests

SpecOrder == InitOrder /\ [][NextOrder]_vars

(* ------------------------------- claims ------------------------------- *)

\* The order viewer < editor < owner of the specification.
Rank(role) == IF role = "viewer" THEN 1 ELSE IF role = "editor" THEN 2 ELSE 3

\* The roles of u's rows on p.
GrantsOf(p, u) == {a.role : a \in RowsFor(p, u)}

\* C1: the user a product belongs to passes check_product_access for every
\* required role, whatever rows the grant table holds for them on it.
C1_OwnerAlwaysGranted ==
    \A p \in DOMAIN products : \A r \in Roles :
        check_product_access(products[p].user_id, p, r) = "Granted"

\* C1's case: one product whose owner has no row, another whose owner's
\* row was lowered to viewer, and both owners still pass at owner level.
C1_Witness ==
    \E p, q \in DOMAIN products :
        /\ GrantsOf(p, products[p].user_id) = {}
        /\ GrantsOf(q, products[q].user_id) = {"viewer"}
        /\ delete_product_response(products[p].user_id, p, TRUE) = "OK"
        /\ delete_product_response(products[q].user_id, q, TRUE) = "OK"

\* C2: a user who is not the product's owner and holds a grant g passes
\* exactly the required roles r with rank(r) <= rank(g), and is refused
\* with Forbidden for the others.
C2_GrantRankDecides ==
    \A p \in DOMAIN products : \A v \in Users \ {products[p].user_id} :
        \A g \in GrantsOf(p, v) : \A r \in Roles :
            LET result == check_product_access(v, p, r)
            IN  /\ (result = "Granted") <=> (Rank(g) >= Rank(r))
                /\ (result # "Granted") => AccessStatus(result) = "Forbidden"
                /\ (g = "viewer" /\ r \in {"editor", "owner"}) => result = "Insufficient"
                /\ (g = "editor" /\ r = "owner") => result = "Insufficient"
                /\ (g = "editor" /\ r \in {"viewer", "editor"}) => result = "Granted"

\* C2's case: a viewer who reads the product and is refused its update, and
\* an editor who updates a product and is refused its deletion.
C2_Witness ==
    \E p, q \in DOMAIN products :
        \E v \in Users \ {products[p].user_id}, e \in Users \ {products[q].user_id} :
            /\ GrantsOf(p, v) = {"viewer"}
            /\ get_product_response(v, p) = "OK"
            /\ update_product_response(v, p, Absent) = "Forbidden"
            /\ GrantsOf(q, e) = {"editor"}
            /\ update_product_response(e, q, Absent) = "OK"
            /\ delete_product_response(e, q, TRUE) = "Forbidden"

\* C3: on an id that names no product the check fails with NotFound for
\* every user and role; on an existing product a user who is neither its
\* owner nor holds a row fails with Forbidden (no role) for every role.
C3_NotFoundAndNoRole ==
    \A u \in Users : \A r \in Roles : \A p \in ProductIds :
        LET result == check_product_access(u, p, r)
        IN  /\ ~Exists(p) => (result = "NotFound" /\ AccessStatus(result) = "NotFound")
            /\ (Exists(p) /\ products[p].user_id # u /\ GrantsOf(p, u) = {})
                  => (result = "NoRole" /\ AccessStatus(result) = "Forbidden")

\* C3's case: a deleted product, looked up, and a product read by a user
\* with no row on it.
C3_Witness ==
    \E p, q \in ProductIds : \E u \in Users :
        /\ p < nextProductId /\ ~Exists(p)
        /\ get_product_response(u, p) = "NotFound"
        /\ Exists(q) /\ products[q].user_id # u /\ GrantsOf(q, u) = {}
        /\ get_product_response(u, q) = "Forbidden"

\* The rows of product p in a grant table, with their multiplicity.
RowBag(table, p) == [a \in {x \in DOMAIN table : x.product_id = p} |-> table[a]]

\* The step is a request of caller u on the grants of p.
GrantRequestBy(u, p) ==
    \/ \E e \in {Absent} \cup EmailInputs, r \in RoleInputs :
         invite_user_to_product(u, p, e, r)
    \/ \E t \in Users, r \in RoleInputs : update_user_product_role(u, p, t, r)
    \/ \E t \in Users : remove_user_from_product(u, p, t)

\* A caller whose only authority on p is an editor or viewer grant is
\* refused by the three grant requests.
C4_LowerRolesRefused ==
    \A p \in DOMAIN products : \A u \in Users \ {products[p].user_id} :
        (GrantsOf(p, u) # {} /\ GrantsOf(p, u) \subseteq {"viewer", "editor"}) =>
            /\ \A e \in {Absent} \cup EmailInputs, r \in RoleInputs :
                 invite_user_to_product_response(u, p, e, r) = "Forbidden"
            /\ \A t \in Users, r \in RoleInputs :
                 update_user_product_role_response(u, p, t, r) = "Forbidden"
            /\ \A t \in Users : remove_user_from_product_response(u, p, t) = "Forbidden"

\* A step that changes the rows of p is a grant request on p of a caller
\* who passes the owner check before the step, or the creation of p with
\* its creator's owner row, or the deletion of p with all its rows.
C4_RowsChangeOnlyByOwner ==
    (accesses' # accesses) =>
    \A p \in ProductIds :
        (RowBag(accesses', p) # RowBag(accesses, p)) =>
            IF ~Exists(p)
            THEN /\ p \in DOMAIN products'
                 /\ RowBag(accesses', p) =
                      SetToBag({[product_id |-> p, user_id |-> products'[p].user_id,
                                 role |-> "owner"]})
            ELSE IF p \notin DOMAIN products'
            THEN RowBag(accesses', p) = EmptyBag
            ELSE /\ \A u \in Users :
                      check_product_access(u, p, "owner") # "Granted"
                          => ~GrantRequestBy(u, p)
                 /\ \E u \in Users : GrantRequestBy(u, p)

\* C4: the rows of an existing product are inserted, updated and deleted
\* only by invite, role update and removal requests of callers who pass the
\* owner check in the state before; an editor or viewer is refused with
\* Forbidden and changes nothing; the only other changes are the creator's
\* grant at creation and the cascade at deletion.
C4_GrantsGatedByOwner == []C4_LowerRolesRefused /\ [][C4_RowsChangeOnlyByOwner]_vars

\* C4's case: an owner's grant request has put a second row on a product,
\* and the editor it made is refused an invite.
C4_Witness ==
    \E p \in DOMAIN products : \E u \in Users \ {products[p].user_id} :
        /\ GrantsOf(p, u) = {"editor"}
        /\ GrantsOf(p, products[p].user_id) = {"owner"}
        /\ \A r \in {"viewer", "editor"} :
             invite_user_to_product_response(u, p, products[p].user_id, r) = "Forbidden"

\* Owner-level authority as C5 states it: the product's user_id, or an
\* 'owner' row.
OwnerAuthority(u, p) ==
    Exists(p) /\ (products[p].user_id = u \/ "owner" \in GrantsOf(p, u))

C5_Refused ==
    \A u \in Users : \A p \in ProductIds : \A flushed \in BOOLEAN :
        ~OwnerAuthority(u, p) =>
            delete_product_response(u, p, flushed)
                = IF Exists(p) THEN "Forbidden" ELSE "NotFound"

C5_NothingDeleted ==
    (products' # products \/ accesses' # accesses \/ tasks' # tasks
        \/ interviews' # interviews) =>
        \A u \in Users : \A p \in ProductIds : \A flushed \in BOOLEAN :
            ~(~OwnerAuthority(u, p) /\ delete_product(u, p, flushed))

\* C5: delete_product by a caller who is neither the product's user_id nor
\* holds an 'owner' row is refused (Forbidden on an existing product,
\* NotFound otherwise) and no step that changes products, grants, tasks or
\* interviews is such a request.
C5_DeleteNeedsOwner == []C5_Refused /\ [][C5_NothingDeleted]_vars

\* C5's case: an editor of a parent who created a child, and so owns it,
\* is refused the parent's deletion.
C5_Witness ==
    \E p, c \in DOMAIN products : \E u \in Users :
        /\ products[c].parent_id = p /\ products[c].user_id = u
        /\ "owner" \in GrantsOf(c, u)
        /\ products[p].user_id # u /\ GrantsOf(p, u) = {"editor"}
        /\ delete_product_response(u, p, TRUE) = "Forbidden"
        /\ delete_product_response(u, c, TRUE) = "OK"

\* The products reached from d by following parent_id, at most n links.
RECURSIVE UpFrom(_, _)
UpFrom(d, n) ==
    IF n = 0 \/ ~Exists(d) \/ products[d].parent_id = None THEN {}
    ELSE {products[d].parent_id} \cup UpFrom(products[d].parent_id, n - 1)

\* The descendants of p: the products from which parent_id links lead to p.
Below(p) == {d \in DOMAIN products : p \in UpFrom(d, Cardinality(DOMAIN products))}

\* C6: after a delete_product(p) that succeeds, p, every product below p
\* and every task, interview and grant row of any of them is gone, and a
\* lookup of any of them answers NotFound.
C6_CascadeRemovesSubtree ==
    [][\A u \in Users : \A p \in DOMAIN products :
          (delete_product(u, p, TRUE) /\ delete_product_response(u, p, TRUE) = "OK") =>
              \A d \in {p} \cup Below(p) :
                  /\ d \notin DOMAIN products'
                  /\ \A t \in DOMAIN tasks : tasks[t].product_id = d => t \notin DOMAIN tasks'
                  /\ \A t \in DOMAIN tasks' : tasks'[t].product_id # d
                  /\ \A i \in DOMAIN interviews : interviews[i].product_id = d => i \notin DOMAIN interviews'
                  /\ \A i \in DOMAIN interviews' : interviews'[i].product_id # d
                  /\ RowBag(accesses', d) = EmptyBag
                  /\ \A v \in Users : \A r \in Roles :
                       (check_product_access(v, d, r))' = "NotFound"]_vars

\* C6's case: a chain of three products, with a task on the lowest and an
\* interview and a grant row on the middle one, whose top is deleted by its
\* owner.
C6_Witness ==
    \E p, c, g \in DOMAIN products :
        /\ products[c].parent_id = p /\ products[g].parent_id = c
        /\ Below(p) = {c, g}
        /\ \E t \in DOMAIN tasks : tasks[t].product_id = g
        /\ \E i \in DOMAIN interviews : interviews[i].product_id = c
        /\ RowsOfProduct(c) # {}
        /\ ENABLED (delete_product(products[p].user_id, p, TRUE)
                      /\ delete_product_response(products[p].user_id, p, TRUE) = "OK")

\* The statement of C7 as claimed: on an existing product, a role update
\* or removal that targets the caller answers InvalidOperation whoever the
\* caller is and whatever the body holds.
C7_AlwaysInvalidOperation ==
    \A p \in DOMAIN products : \A u \in Users :
        /\ \A r \in RoleInputs :
             update_user_product_role_response(u, p, u, r) = "InvalidOperation"
        /\ remove_user_from_product_response(u, p, u) = "InvalidOperation"

C7_SelfTargetResponses ==
    \A u \in Users : \A p \in ProductIds :
        LET result == check_product_access(u, p, "owner")
            removal == remove_user_from_product_response(u, p, u)
        IN  /\ removal # "OK"
            /\ removal = IF result = "Granted" THEN "InvalidOperation"
                         ELSE IF Exists(p) THEN "Forbidden" ELSE "NotFound"
            /\ \A r \in RoleInputs :
                 LET update == update_user_product_role_response(u, p, u, r)
                 IN  /\ update # "OK"
                     /\ update = IF result # "Granted"
                                 THEN (IF Exists(p) THEN "Forbidden" ELSE "NotFound")
                                 ELSE IF r \in Roles THEN "InvalidOperation"
                                 ELSE "InvalidInput"

C7_SelfTargetChangesNothing ==
    (accesses' # accesses) =>
        \A u \in Users : \A p \in ProductIds :
            /\ \A r \in RoleInputs : ~update_user_product_role(u, p, u, r)
            /\ ~remove_user_from_product(u, p, u)

\* C7 (amended): a role update or a removal whose target is the caller
\* never succeeds and changes no row; it answers InvalidOperation when the
\* caller passes the owner check and, for the update, the body holds one of
\* the three roles; a caller who fails the owner check is answered
\* Forbidden (NotFound on a missing product) and a missing or unknown role
\* InvalidInput, these checks coming first.
C7_SelfTargetRefused == []C7_SelfTargetResponses /\ [][C7_SelfTargetChangesNothing]_vars

\* C7's case: an owner with their own row targets themselves and gets
\* InvalidOperation; an editor who does so gets Forbidden.
C7_Witness ==
    \E p \in DOMAIN products : \E v \in Users \ {products[p].user_id} :
        LET u == products[p].user_id
        IN  /\ GrantsOf(p, u) = {"owner"}
            /\ update_user_product_role_response(u, p, u, "viewer") = "InvalidOperation"
            /\ remove_user_from_product_response(u, p, u) = "InvalidOperation"
            /\ GrantsOf(p, v) = {"editor"}
            /\ update_user_product_role_response(v, p, v, "owner") = "Forbidden"
            /\ remove_user_from_product_response(v, p, v) = "Forbidden"

\* The statement of C8 as claimed: inviting a user who has a row answers
\* Conflict for every role.
C8_ConflictForEveryRole ==
    \A p \in DOMAIN products : \A u, t \in Users :
        (check_product_access(u, p, "owner") = "Granted" /\ GrantsOf(p, t) # {}) =>
            \A r \in Roles : invite_user_to_product_response(u, p, t, r) = "Conflict"

C8_SecondInviteResponses ==
    \A p \in DOMAIN products : \A u, t \in Users :
        (check_product_access(u, p, "owner") = "Granted" /\ GrantsOf(p, t) # {}) =>
            \A r \in RoleInputs :
                invite_user_to_product_response(u, p, t, r)
                    = IF r \notin {"viewer", "editor"} THEN "InvalidInput"
                      ELSE IF t = u THEN "InvalidOperation"
                      ELSE "Conflict"

C8_SecondInviteChangesNothing ==
    (accesses' # accesses) =>
        \A p \in DOMAIN products : \A u, t \in Users :
            GrantsOf(p, t) # {} =>
                \A r \in RoleInputs : ~invite_user_to_product(u, p, t, r)

\* C8 (amended): when T has a row on P, an invite of T by a caller who
\* passes the owner check never succeeds and leaves every row as it is; it
\* answers Conflict for the roles an invite accepts, viewer and editor,
\* when T is not the caller; the role 'owner' and unknown or missing roles
\* are answered InvalidInput, and an invite of the caller InvalidOperation.
C8_SecondInviteRefused == []C8_SecondInviteResponses /\ [][C8_SecondInviteChangesNothing]_vars

\* C8's case: a user invited as viewer is invited again as editor.
C8_Witness ==
    \E p \in DOMAIN products : \E t \in Users \ {products[p].user_id} :
        /\ GrantsOf(p, t) = {"viewer"}
        /\ invite_user_to_product_response(products[p].user_id, p, t, "editor") = "Conflict"

\* The number of rows for the pair (p, u).
PairCount(p, u) == BagCardinality([a \in RowsFor(p, u) |-> accesses[a]])

\* C9: the grant table holds at most one row per (product_id, user_id),
\* also when invites of the same user overlap.
C9_OneRowPerPair ==
    \A p \in ProductIds : \A u \in Users : PairCount(p, u) <= 1

\* C9's case: two invites of one user to one product passed their checks;
\* one has committed its row, the other is still to commit.
C9_Witness ==
    \E req \in BagToSet(pending) :
        /\ PairCount(req.pid, req.target) = 1
        /\ InviteCommit(req.pid, req.target) = "ServerError"
        /\ Exists(req.pid)

\* 1 + the largest iteration_number among the children of parent, 1 when
\* it has none.
ExpectedNumber(parent) ==
    LET numbers == {products[c].iteration_number :
                      c \in {x \in DOMAIN products : products[x].parent_id = parent}}
    IN  IF numbers = {} THEN 1
        ELSE 1 + (CHOOSE n \in numbers : \A m \in numbers : m <= n)

\* C10: a product created with a parent gets 1 + the largest
\* iteration_number of the children the parent has at that moment, 1 when
\* it has none.
C10_ChildNumberIsMaxPlusOne ==
    [][(nextProductId' # nextProductId) =>
          /\ nextProductId \in DOMAIN products'
          /\ products'[nextProductId].parent_id # None =>
               /\ Exists(products'[nextProductId].parent_id)
               /\ products'[nextProductId].iteration_number
                    = ExpectedNumber(products'[nextProductId].parent_id)]_vars

\* C10's case: three children created one after another under one parent
\* carry 1, 2, 3 in creation order.
C10_Witness ==
    \E p \in DOMAIN products :
        /\ ChildrenOf(p) = {p + 1, p + 2, p + 3}
        /\ \A k \in 1 .. 3 : products[p + k].iteration_number = k

\* C11: no two products with the same non-null parent_id have the same
\* iteration_number, in every state reached by create_product,
\* create_iteration, update_product and delete_product served one at a
\* time.
C11_SiblingNumbersUnique ==
    \A c, d \in DOMAIN products :
        (c # d /\ products[c].parent_id # None
               /\ products[c].parent_id = products[d].parent_id)
            => products[c].iteration_number # products[d].iteration_number

\* C12: no lock and no constraint orders the read of the largest sibling
\* number and the insert: the insert of a creation request commits the
\* number the request read, whatever numbers the children of its parent
\* have by then, so two overlapping creations under one parent can both
\* commit the same iteration_number.
C12_InsertKeepsTheNumberRead ==
    [][\A req \in BagToSet(creating) :
          (create_insert(req) /\ req.parent_id # None /\ Exists(req.parent_id)) =>
              /\ nextProductId \in DOMAIN products'
              /\ products'[nextProductId].parent_id = req.parent_id
              /\ products'[nextProductId].iteration_number = req.iteration_number]_vars

\* C12's case: two creation requests under one parent have both ended with
\* their product and owner row committed, and the two children carry the
\* same iteration_number.
C12_Witness ==
    /\ creating = EmptyBag
    /\ \E p, c, d \in DOMAIN products :
         /\ c # d
         /\ products[c].parent_id = p /\ products[d].parent_id = p
         /\ products[c].iteration_number = products[d].iteration_number
         /\ "owner" \in GrantsOf(c, products[c].user_id)
         /\ "owner" \in GrantsOf(d, products[d].user_id)

\* C16: no state is reachable, and none can be seen by another request,
\* in which a product exists without the owner row of its creator.
C16_NoProductWithoutOwnerRow ==
    \A p \in DOMAIN products : "owner" \in GrantsOf(p, products[p].user_id)

\* C16's case: every creation request has ended, the commit of an owner
\* row failed, and its product is in the table with no row at all.
C16_Witness ==
    /\ creating = EmptyBag
    /\ \E p \in DOMAIN products : RowsOfProduct(p) = {}

\* The statement of C13 as claimed: the numbers given to the children of
\* a parent are strictly increasing in creation order, deleted children
\* counted, so no number is given twice.
C13_GivenNumbersIncrease ==
    \A p \in DOMAIN given : \A i, j \in DOMAIN given[p] :
        i < j => given[p][i] < given[p][j]

\* C13 (amended): among the children of a parent that exist, created
\* under it by requests served one at a time, the iteration numbers are
\* strictly increasing in creation order: a new child's number is above
\* the number of every child existing then.  The number of a deleted child
\* is given again once no existing child has it or a larger one.
C13_ExistingChildrenIncrease ==
    \A c, d \in DOMAIN products :
        (c < d /\ products[c].parent_id # None
               /\ products[c].parent_id = products[d].parent_id)
            => products[c].iteration_number < products[d].iteration_number

\* C13's case: a parent was given 1, 2 and, after the child numbered 2 was
\* deleted, 2 again; the two children it has carry 1 and 2 in creation
\* order.
C13_Witness ==
    \E p \in DOMAIN products :
        /\ given[p] = <<1, 2, 2>>
        /\ \E c, d \in ChildrenOf(p) :
             /\ c < d /\ ChildrenOf(p) = {c, d}
             /\ products[c].iteration_number = 1
             /\ products[d].iteration_number = 2

\* The step is a request of caller u that gives product q the parent P.
ParentRequestBy(u, q, P) ==
    \/ q = nextProductId /\ create_product(u, TRUE, P)
    \/ q = nextProductId /\ create_iteration(u, P, TRUE)
    \/ \E name_in \in {Absent} \cup Names : update_product(u, q, name_in, P)

\* A product gets the parent P only in a step of a caller who passes the
\* editor check on P before the step.
C14_ParentSetByEditorOfParent ==
    \A q \in DOMAIN products' :
        LET P == products'[q].parent_id
        IN  (P # None /\ (q \notin DOMAIN products \/ products[q].parent_id # P)) =>
                \E u \in Users :
                    /\ check_product_access(u, P, "editor") = "Granted"
                    /\ ParentRequestBy(u, q, P)

\* A request naming a parent its caller fails the editor check on is
\* refused.
C14_ParentCheckRefuses ==
    \A u \in Users : \A P \in ProductIds :
        check_product_access(u, P, "editor") # "Granted" =>
            /\ \A named \in BOOLEAN :
                 /\ create_product_response(u, named, P) # "OK"
                 /\ create_iteration_response(u, P, named) # "OK"
            /\ \A q \in ProductIds : update_product_response(u, q, P) # "OK"

\* ... and is not a step that changes the products or the grant rows.
C14_RefusedChangesNothing ==
    (products' # products \/ accesses' # accesses) =>
        \A u \in Users : \A P \in ProductIds :
            check_product_access(u, P, "editor") # "Granted" =>
                /\ \A named \in BOOLEAN :
                     ~create_product(u, named, P) /\ ~create_iteration(u, P, named)
                /\ \A q \in ProductIds : \A name_in \in {Absent} \cup Names :
                     ~update_product(u, q, name_in, P)

\* C14: a product's parent_id becomes P, through create_product,
\* create_iteration or update_product, only in a request whose caller
\* passes check_product_access(caller, P, editor) at that moment; a request
\* that fails this check creates no product and changes no field of any
\* product, the fields sent with a refused update_product included.
C14_ParentNeedsEditor ==
    /\ []C14_ParentCheckRefuses
    /\ [][C14_ParentSetByEditorOfParent /\ C14_RefusedChangesNothing]_vars

\* C14's case: an editor of q, with the name q was created with, who has
\* no role on P is refused the move of q under P for each name sent along,
\* and the creation of a child of P; an invited editor has created a child.
C14_Witness ==
    \E P, q \in DOMAIN products : \E u \in Users :
        /\ P # q /\ products[q].name = 1
        /\ check_product_access(u, q, "editor") = "Granted"
        /\ check_product_access(u, P, "viewer") = "NoRole"
        /\ update_product_response(u, q, P) = "InvalidOperation"
        /\ create_product_response(u, TRUE, P) = "NotFound"
        /\ create_iteration_response(u, P, TRUE) = "Forbidden"
        /\ ENABLED update_product(u, q, 2, P)

\* C15: a creation that succeeds adds the row (new product, caller,
\* owner) to the grant table and nothing else: the rows of every other
\* product, the parent's included, are as before.
C15_CreatorOwnsNewProductOnly ==
    [][(nextProductId' # nextProductId) => \A u \in Users :
          (\/ \E parent_id \in {None} \cup ProductIds :
                /\ create_product_response(u, TRUE, parent_id) = "OK"
                /\ create_product(u, TRUE, parent_id)
           \/ \E p \in ProductIds :
                /\ create_iteration_response(u, p, TRUE) = "OK"
                /\ create_iteration(u, p, TRUE))
          => /\ nextProductId \in DOMAIN products'
             /\ RowBag(accesses', nextProductId)
                  = SetToBag({[product_id |-> nextProductId, user_id |-> u,
                               role |-> "owner"]})
             /\ \A q \in ProductIds \ {nextProductId} :
                  RowBag(accesses', q) = RowBag(accesses, q)]_vars

\* C15's case: an editor of a parent has created a child: they hold
\* 'owner' on the child and still exactly 'editor' on the parent.
C15_Witness ==
    \E P, N \in DOMAIN products : \E B \in Users \ {products[P].user_id} :
        /\ products[N].parent_id = P /\ products[N].user_id = B
        /\ GrantsOf(N, B) = {"owner"}
        /\ GrantsOf(P, B) = {"editor"}
        /\ RowsOfProduct(N) = {[product_id |-> N, user_id |-> B, role |-> "owner"]}
        /\ check_product_access(B, P, "owner") = "Insufficient"

\* The step is a request to generate the research document of p.
ResearchRequest(u, p, generated, committed) ==
    generate_research_document(u, p, TRUE, generated, committed)

\* The step is a request to generate the PRD of p.
PrdRequest(u, p, generated, committed) ==
    generate_prd_document(u, p, TRUE, generated, committed)

\* A generator that answers OK has written the text and 'Completed'; one
\* that does not has written nothing; a failed model call or commit is
\* never answered OK.
C17_BothOrNeither ==
    (products' # products) =>
    \A u \in Users : \A p \in DOMAIN products :
    \A generated \in {None} \cup Texts : \A committed \in BOOLEAN :
        /\ ResearchRequest(u, p, generated, committed) =>
             /\ generate_research_document_response(u, p, TRUE, generated, committed)
                  = "OK"
             /\ generated # None /\ committed
             /\ products'[p].research_document_json = generated
             /\ products'[p].research_status = "Completed"
        /\ PrdRequest(u, p, generated, committed) =>
             /\ generate_prd_document_response(u, p, TRUE, generated, committed) = "OK"
             /\ generated # None /\ committed
             /\ products'[p].prd_document_json = generated
             /\ products'[p].prd_status = "Completed"

\* A request whose model call or commit fails reports the failure.
C17_FailureReported ==
    \A u \in Users : \A p \in {None} \cup ProductIds : \A prompted \in BOOLEAN :
    \A generated \in {None} \cup Texts : \A committed \in BOOLEAN :
        (generated = None \/ ~committed) =>
            /\ generate_research_document_response(u, p, prompted, generated,
                                                   committed) # "OK"
            /\ generate_prd_document_response(u, p, prompted, generated,
                                              committed) # "OK"

\* Text and status of a phase are written together.
C17_TextIffCompleted ==
    \A p \in DOMAIN products :
        /\ (products[p].research_document_json # None)
             <=> (products[p].research_status = "Completed")
        /\ (products[p].prd_document_json # None)
             <=> (products[p].prd_status = "Completed")

\* C17: generate_research_document and generate_prd_document write the
\* document text and the status 'Completed' in one commit: when the model
\* call or the commit fails nothing of the product changes and the request
\* reports the failure; when it succeeds both are set; through these
\* requests no state is reached with exactly one of the two written.
C17_DocumentAndStatusTogether ==
    /\ [](C17_FailureReported /\ C17_TextIffCompleted)
    /\ [][C17_BothOrNeither]_vars

\* C17's case: the research document of a product was generated twice,
\* the PRD generation has not succeeded, and a PRD request whose model
\* call fails is answered with the failure.
C17_Witness ==
    \E p \in DOMAIN products :
        /\ products[p].research_document_json = 2
        /\ products[p].research_status = "Completed"
        /\ products[p].prd_document_json = None
        /\ products[p].prd_status = "Not Started"
        /\ generate_prd_document_response(products[p].user_id, p, TRUE, None, TRUE)
             = "ServerError"
        /\ generate_prd_document_response(products[p].user_id, p, TRUE, 1, FALSE)
             = "ServerError"

\* The statement of C18 as claimed: both requests accept the three roles
\* and answer InvalidInput to any other role value before they evaluate
\* the caller's access, that is whoever the caller is.
C18_ThreeRolesCheckedFirst ==
    \A u \in Users : \A p \in ProductIds : \A t \in Users : \A r \in RoleInputs :
        /\ r \notin Roles =>
             /\ invite_user_to_product_response(u, p, t, r) = "InvalidInput"
             /\ update_user_product_role_response(u, p, t, r) = "InvalidInput"
        /\ (r \in Roles /\ check_product_access(u, p, "owner") = "Granted") =>
             /\ invite_user_to_product_response(u, p, t, r) # "InvalidInput"
             /\ update_user_product_role_response(u, p, t, r) # "InvalidInput"

C18_RoleResponses ==
    \A u \in Users : \A p \in ProductIds : \A r \in RoleInputs :
        LET result == check_product_access(u, p, "owner")
        IN  /\ \A e \in {Absent} \cup EmailInputs :
                 LET invite == invite_user_to_product_response(u, p, e, r)
                 IN  IF result # "Granted" THEN invite = AccessStatus(result)
                     ELSE (invite = "InvalidInput")
                            <=> (e = Absent \/ r \notin {"viewer", "editor"})
            /\ \A t \in Users :
                 LET update == update_user_product_role_response(u, p, t, r)
                 IN  IF result # "Granted" THEN update = AccessStatus(result)
                     ELSE (update = "InvalidInput") <=> (r \notin Roles)

C18_RejectedRoleChangesNothing ==
    (accesses' # accesses) =>
        \A u \in Users : \A p \in ProductIds :
            /\ \A e \in {Absent} \cup EmailInputs :
               \A r \in RoleInputs \ {"viewer", "editor"} :
                   ~invite_user_to_product(u, p, e, r)
            /\ \A t \in Users : \A r \in RoleInputs \ Roles :
                   ~update_user_product_role(u, p, t, r)

\* C18 (amended): invite_user_to_product accepts exactly the roles viewer
\* and editor, update_user_product_role exactly viewer, editor and owner.
\* The access evaluation comes first: a caller who fails the owner check
\* is answered Forbidden or NotFound whatever the role value; for a caller
\* who passes it any other role value, a missing one included, is rejected
\* with InvalidInput; a request with a rejected role changes no row.
C18_RolesValidatedAfterAccess ==
    []C18_RoleResponses /\ [][C18_RejectedRoleChangesNothing]_vars

\* C18's case: an owner whose invite with 'viewer' would be served and
\* with 'owner' or an unknown role is rejected, a role update to 'owner'
\* that would be served, and an editor whose unknown role is answered
\* Forbidden.
C18_Witness ==
    \E p, q \in DOMAIN products : \E t \in Users \ {products[p].user_id} :
        LET u == products[p].user_id
        IN  /\ products[q].user_id = u
            /\ GrantsOf(p, t) = {}
            /\ invite_user_to_product_response(u, p, t, "viewer") = "OK"
            /\ invite_user_to_product_response(u, p, t, "owner") = "InvalidInput"
            /\ invite_user_to_product_response(u, p, t, "admin") = "InvalidInput"
            /\ GrantsOf(q, t) = {"editor"}
            /\ update_user_product_role_response(u, q, t, "owner") = "OK"
            /\ update_user_product_role_response(u, q, t, "admin") = "InvalidInput"
            /\ invite_user_to_product_response(t, q, u, "admin") = "Forbidden"
            /\ update_user_product_role_response(t, q, u, "admin") = "Forbidden"

C19_Granted(u, product_id, required_role) ==
    check_product_access(u, product_id, required_role) = "Granted"

C19_TaskResponsesGated ==
    \A u \in Users :
        /\ \A t \in TaskIds :
             /\ get_task_response(u, t) = "OK" =>
                  t \in DOMAIN tasks /\ C19_Granted(u, tasks[t].product_id, "viewer")
             /\ delete_task_response(u, t) = "OK" =>
                  t \in DOMAIN tasks /\ C19_Granted(u, tasks[t].product_id, "editor")
             /\ \A dated \in BOOLEAN :
                  update_task_response(u, t, dated) = "OK" =>
                    t \in DOMAIN tasks /\ C19_Granted(u, tasks[t].product_id, "editor")
        /\ \A p \in ProductIds :
             /\ get_tasks_for_product_response(u, p) = "OK" => C19_Granted(u, p, "viewer")
             /\ \A titled \in BOOLEAN :
                  create_task_response(u, p, titled) = "OK" => C19_Granted(u, p, "editor")
        /\ \A t \in get_all_tasks(u) : C19_Granted(u, tasks[t].product_id, "viewer")

C19_InterviewResponsesGated ==
    \A u \in Users :
        /\ \A i \in InterviewIds :
             /\ get_customer_interview_response(u, i) = "OK" =>
                  i \in DOMAIN interviews
                    /\ C19_Granted(u, interviews[i].product_id, "viewer")
             /\ delete_customer_interview_response(u, i) = "OK" =>
                  i \in DOMAIN interviews
                    /\ C19_Granted(u, interviews[i].product_id, "editor")
             /\ \A dated \in BOOLEAN :
                  update_customer_interview_response(u, i, dated) = "OK" =>
                    i \in DOMAIN interviews
                      /\ C19_Granted(u, interviews[i].product_id, "editor")
             /\ \A generated \in Texts :
                  generate_interview_summary_response(u, i, TRUE, generated, TRUE) = "OK" =>
                    i \in DOMAIN interviews
                      /\ C19_Granted(u, interviews[i].product_id, "editor")
        /\ \A p \in ProductIds :
             /\ get_interviews_for_product_response(u, p) = "OK" =>
                  C19_Granted(u, p, "viewer")
             /\ \A named, dated \in BOOLEAN :
                  create_customer_interview_response(u, p, named, dated) = "OK" =>
                    C19_Granted(u, p, "editor")

\* A step that changes anything is no task or interview request of a
\* caller without the editor role on the resource's product.
C19_DeniedChangesNothing ==
    (vars' # vars) =>
        \A u \in Users :
            /\ \A t \in DOMAIN tasks :
                 ~C19_Granted(u, tasks[t].product_id, "editor") =>
                   /\ ~delete_task(u, t)
                   /\ \A title_in \in {Absent} \cup Names : \A dated \in BOOLEAN :
                        ~update_task(u, t, title_in, dated)
            /\ \A i \in DOMAIN interviews :
                 ~C19_Granted(u, interviews[i].product_id, "editor") =>
                   /\ ~delete_customer_interview(u, i)
                   /\ \A name_in \in {Absent} \cup Names : \A dated \in BOOLEAN :
                        ~update_customer_interview(u, i, name_in, dated)
                   /\ \A noted, committed \in BOOLEAN : \A generated \in {None} \cup Texts :
                        ~generate_interview_summary(u, i, noted, generated, committed)
            /\ \A p \in ProductIds :
                 ~C19_Granted(u, p, "editor") =>
                   /\ \A titled \in BOOLEAN : ~create_task(u, p, titled)
                   /\ \A named, dated \in BOOLEAN :
                        ~create_customer_interview(u, p, named, dated)

C19_ProductIdKept ==
    /\ \A t \in DOMAIN tasks \cap DOMAIN tasks' :
         tasks'[t].product_id = tasks[t].product_id
    /\ \A i \in DOMAIN interviews \cap DOMAIN interviews' :
         interviews'[i].product_id = interviews[i].product_id

\* C19: a task or interview request succeeds only if check_product_access
\* grants the caller the role on the resource's product_id: viewer for the
\* reads, editor for create, update, delete and generate_interview_summary;
\* a request that is denied changes nothing; and no step changes the
\* product_id of a task or an interview that exists.
C19_LeafGatedOnItsProduct ==
    /\ [](C19_TaskResponsesGated /\ C19_InterviewResponsesGated)
    /\ [][C19_DeniedChangesNothing /\ C19_ProductIdKept]_vars

\* C19's case: a viewer of product p who may read p's task and interview
\* and is refused every change of them, on a product whose interview got
\* its summary, next to a product of their own whose task they retitled.
C19_Witness ==
    \E p, q \in DOMAIN products : \E v \in Users :
    \E t, t2 \in DOMAIN tasks : \E i \in DOMAIN interviews :
        /\ products[p].user_id # v /\ GrantsOf(p, v) = {"viewer"}
        /\ tasks[t].product_id = p /\ interviews[i].product_id = p
        /\ interviews[i].ai_summary_json # None
        /\ get_task_response(v, t) = "OK"
        /\ get_customer_interview_response(v, i) = "OK"
        /\ update_task_response(v, t, TRUE) = "Forbidden"
        /\ delete_task_response(v, t) = "Forbidden"
        /\ create_task_response(v, p, TRUE) = "Forbidden"
        /\ update_customer_interview_response(v, i, TRUE) = "Forbidden"
        /\ delete_customer_interview_response(v, i) = "Forbidden"
        /\ generate_interview_summary_response(v, i, TRUE, 1, TRUE) = "Forbidden"
        /\ products[q].user_id = v
        /\ tasks[t2].product_id = q /\ tasks[t2].title = 2
        /\ update_task_response(v, t2, TRUE) = "OK"

\* The only authority of v on product P is a viewer row.
C20_ViewerOnly(v, P) ==
    /\ P \in DOMAIN products
    /\ products[P].user_id # v
    /\ GrantsOf(P, v) = {"viewer"}

C20_TasksOf(P) == {<<t, tasks[t]>> : t \in {x \in DOMAIN tasks : tasks[x].product_id = P}}

C20_InterviewsOf(P) ==
    {<<i, interviews[i]>> : i \in {x \in DOMAIN interviews : interviews[x].product_id = P}}

\* The step is a request of user v.
C20_RequestOf(v) ==
    \/ \E named \in BOOLEAN, parent_id \in {None} \cup ProductIds :
         create_product(v, named, parent_id)
    \/ \E p \in ProductIds, named \in BOOLEAN : create_iteration(v, p, named)
    \/ \E p \in ProductIds, flushed \in BOOLEAN : delete_product(v, p, flushed)
    \/ \E p \in ProductIds, name_in \in {Absent} \cup Names,
          parent_in \in {Absent, None} \cup ProductIds :
         update_product(v, p, name_in, parent_in)
    \/ \E p \in ProductIds, generated \in Texts :
         \/ generate_research_document(v, p, TRUE, generated, TRUE)
         \/ generate_prd_document(v, p, TRUE, generated, TRUE)
    \/ \E p \in ProductIds, titled \in BOOLEAN : create_task(v, p, titled)
    \/ \E p \in ProductIds, named \in BOOLEAN, dated \in BOOLEAN :
         create_customer_interview(v, p, named, dated)
    \/ \E t \in TaskIds :
         \/ delete_task(v, t)
         \/ \E title_in \in Names : update_task(v, t, title_in, TRUE)
    \/ \E i \in InterviewIds :
         \/ delete_customer_interview(v, i)
         \/ \E name_in \in Names : update_customer_interview(v, i, name_in, TRUE)
         \/ \E generated \in Texts : generate_interview_summary(v, i, TRUE, generated, TRUE)
    \/ \E p \in ProductIds, t \in Users :
         \/ remove_user_from_product(v, p, t)
         \/ \E r \in RoleInputs : update_user_product_role(v, p, t, r)
    \/ \E p \in ProductIds, e \in {Absent} \cup EmailInputs, r \in RoleInputs :
         invite_user_to_product(v, p, e, r)

\* What the step changes of a product P that stays.
C20_OwnStateChanged(P) ==
    \/ products'[P] # products[P]
    \/ C20_TasksOf(P)' # C20_TasksOf(P)
    \/ C20_InterviewsOf(P)' # C20_InterviewsOf(P)
    \/ RowBag(accesses', P) # RowBag(accesses, P)

\* The statement of C20 as claimed: no request of a user whose only
\* authority on P is a viewer row deletes P or changes P's fields,
\* parent_id, documents, tasks, interviews, grant rows or children.
C20_ViewerChangesNothing ==
    [][\A v \in Users : \A P \in DOMAIN products :
          (/\ vars' # vars
           /\ C20_ViewerOnly(v, P)
           /\ \/ P \notin DOMAIN products'
              \/ C20_OwnStateChanged(P)
              \/ ChildrenOf(P)' # ChildrenOf(P))
            => ~C20_RequestOf(v)]_vars

\* C20 (amended): no request of a user whose only authority on P is a
\* viewer row changes P's fields, parent_id or documents, P's tasks, P's
\* customer interviews or P's grant rows, or gives P a new child, while P
\* stays; a child that P loses by such a request is one on which the user
\* is granted 'editor'; and P is deleted by such a request only through
\* the cascade from a product above P on which the user is granted 'owner'.
C20_ViewerChangesNothingOfP ==
    [][\A v \in Users : \A P \in DOMAIN products :
          (/\ vars' # vars
           /\ C20_ViewerOnly(v, P)
           /\ IF P \in DOMAIN products'
              THEN \/ C20_OwnStateChanged(P)
                   \/ \E c \in ChildrenOf(P)' : c \notin ChildrenOf(P)
                   \/ \E c \in ChildrenOf(P) :
                        /\ c \notin ChildrenOf(P)'
                        /\ check_product_access(v, c, "editor") # "Granted"
              ELSE \A d \in UpFrom(P, Cardinality(DOMAIN products)) :
                     check_product_access(v, d, "owner") # "Granted")
            => ~C20_RequestOf(v)]_vars

\* C20's case: a user with only a viewer row on P, a product with a task,
\* whose requests to change P, its task or its rows are refused, and who
\* may delete a child of P that is their own.
C20_Witness ==
    \E v \in Users : \E P, c \in DOMAIN products : \E t \in DOMAIN tasks :
        /\ C20_ViewerOnly(v, P)
        /\ tasks[t].product_id = P
        /\ products[c].parent_id = P /\ products[c].user_id = v
        /\ update_product_response(v, P, Absent) = "Forbidden"
        /\ delete_product_response(v, P, TRUE) = "Forbidden"
        /\ create_task_response(v, P, TRUE) = "Forbidden"
        /\ update_task_response(v, t, TRUE) = "Forbidden"
        /\ delete_task_response(v, t) = "Forbidden"
        /\ generate_research_document_response(v, P, TRUE, 1, TRUE) = "Forbidden"
        /\ invite_user_to_product_response(v, P, products[P].user_id, "viewer") = "Forbidden"
        /\ delete_product_response(v, c, TRUE) = "OK"

\* C22: the parent_id links form a forest: from every product they lead
\* to a root, and no product is above itself.
C22_ParentLinksFormForest ==
    \A p \in DOMAIN products :
        /\ p \notin UpFrom(p, Cardinality(DOMAIN products))
        /\ \E r \in {p} \cup UpFrom(p, Cardinality(DOMAIN products)) :
             r \in DOMAIN products /\ products[r].parent_id = None

\* C23: every root product has iteration_number 1.
C23_RootsHaveNumberOne ==
    \A p \in DOMAIN products :
        products[p].parent_id = None => products[p].iteration_number = 1

\* C23's case: a product that was given number 2 as a second child and is
\* a root now.
C23_Witness ==
    \E p \in DOMAIN products :
        products[p].parent_id = None /\ products[p].iteration_number = 2

C29_UserIdKept ==
    \A p \in DOMAIN products \cap DOMAIN products' :
        products'[p].user_id = products[p].user_id

C29_UserIdIsCreator ==
    (nextProductId' # nextProductId) =>
        \A p \in DOMAIN products' \ DOMAIN products :
            \E u \in Users :
                /\ products'[p].user_id = u
                /\ \/ \E named \in BOOLEAN, parent_id \in {None} \cup ProductIds :
                        create_product(u, named, parent_id)
                   \/ \E q \in ProductIds, named \in BOOLEAN :
                        create_iteration(u, q, named)

\* C29: a product's user_id is the user whose request created it and no
\* later step changes it, a role update that gives another user 'owner'
\* included.
C29_OwnerNeverChanges ==
    [][C29_UserIdIsCreator /\ C29_UserIdKept]_vars

\* C29's case: a product on which another user than its creator holds an
\* 'owner' row, with an iteration below it created by that user.
C29_Witness ==
    \E p, c \in DOMAIN products : \E v \in Users :
        /\ products[p].user_id # v
        /\ GrantsOf(p, v) = {"owner"}
        /\ products[c].parent_id = p
        /\ products[c].user_id = v

\* C25: get_iteration_context, a read of the products table, returns the
\* empty context for a product without parent, and otherwise the parent's
\* snapshot with the snapshots of exactly the other products that have the
\* same parent_id: never the product itself, never a product of another
\* parent.
C25_ContextIsParentAndSiblings ==
    \A p \in DOMAIN products :
        LET context == get_iteration_context(p)
            parent_id == products[p].parent_id
        IN  IF parent_id = None THEN DOMAIN context = {}
            ELSE /\ DOMAIN context = {"parent", "siblings"}
                 /\ context.parent = ParentSnapshot(products[parent_id])
                 /\ p \notin DOMAIN context.siblings
                 /\ \A q \in DOMAIN products :
                      q \in DOMAIN context.siblings
                        <=> (products[q].parent_id = parent_id /\ q # p)
                 /\ \A q \in DOMAIN context.siblings :
                      context.siblings[q] = SiblingSnapshot(products[q])

\* C25's case: a product with a sibling next to a product of another
\* parent, and a root, whose context is empty.
C25_Witness ==
    \E p, q, r \in DOMAIN products :
        /\ products[p].parent_id # None
        /\ Cardinality(DOMAIN get_iteration_context(p).siblings) = 1
        /\ products[q].parent_id # products[p].parent_id
        /\ products[q].parent_id # None
        /\ products[r].parent_id = None
        /\ DOMAIN get_iteration_context(r) = {}

\* C30: the documents that generate_research_document and
\* generate_prd_document put into the prompt of a caller they serve come
\* only from products on which the caller is granted 'viewer'.
C30_PromptFromReadableProducts ==
    \A u \in Users : \A p \in DOMAIN products :
        (\/ generate_research_document_response(u, p, TRUE, 1, TRUE) = "OK"
         \/ generate_prd_document_response(u, p, TRUE, 1, TRUE) = "OK") =>
            \A q \in PromptProducts(p) :
                check_product_access(u, q, "viewer") = "Granted"

\* C30's case: a caller served for a product on whose parent they have no
\* grant.
C30_Witness ==
    \E u \in Users : \E p \in DOMAIN products :
        /\ generate_research_document_response(u, p, TRUE, 1, TRUE) = "OK"
        /\ products[p].parent_id \in PromptProducts(p)
        /\ products[p].parent_id # p
        /\ check_product_access(u, products[p].parent_id, "viewer") = "NoRole"

\* C21: a reminder with a product_id is returned to, and changed for, only
\* a caller who is granted 'viewer' on that product at that moment; a
\* reminder without product_id only its own user.
C21_ReminderBehindProductGrants ==
    \A u \in Users : \A r \in DOMAIN reminders :
        (\/ r \in get_reminders(u)
         \/ update_reminder_response(u, r, TRUE) = "OK"
         \/ delete_reminder_response(u, r) = "OK"
         \/ acknowledge_reminder_response(u, r) = "OK"
         \/ snooze_reminder_response(u, r, TRUE) = "OK") =>
            IF reminders[r].product_id = None
            THEN reminders[r].user_id = u
            ELSE check_product_access(u, reminders[r].product_id, "viewer") = "Granted"

\* C21's case: a user whose grant on a product was removed and who still
\* gets, and may change and delete, the reminder they made on it.
C21_Witness ==
    \E u \in Users : \E r \in DOMAIN reminders :
        /\ reminders[r].product_id # None
        /\ check_product_access(u, reminders[r].product_id, "viewer") = "NoRole"
        /\ r \in get_reminders(u)
        /\ update_reminder_response(u, r, TRUE) = "OK"
        /\ delete_reminder_response(u, r) = "OK"

\* C24: every task, interview and grant row has a product_id of an
\* existing product, every product with a parent_id an existing parent,
\* and every reminder with a product_id or task_id an existing product or
\* task.
C24_NoDanglingReference ==
    /\ \A t \in DOMAIN tasks : tasks[t].product_id \in DOMAIN products
    /\ \A i \in DOMAIN interviews : interviews[i].product_id \in DOMAIN products
    /\ \A a \in BagToSet(accesses) : a.product_id \in DOMAIN products
    /\ \A p \in DOMAIN products :
         products[p].parent_id # None => products[p].parent_id \in DOMAIN products
    /\ \A r \in DOMAIN reminders :
         /\ reminders[r].product_id # None => reminders[r].product_id \in DOMAIN products
         /\ reminders[r].task_id # None => reminders[r].task_id \in DOMAIN tasks

\* C24's case: after a product was deleted, a reminder without product_id
\* that refers to a task of a product with an interview and a second grant
\* row; the task and the product cannot be deleted while it stays.
C24_Witness ==
    \E r \in DOMAIN reminders : \E t \in DOMAIN tasks : \E i \in DOMAIN interviews :
        LET P == tasks[t].product_id
        IN  /\ Cardinality(DOMAIN products) + 1 < nextProductId
            /\ reminders[r].task_id = t
            /\ reminders[r].product_id = None
            /\ interviews[i].product_id = P
            /\ Cardinality(RowsOfProduct(P)) = 2
            /\ delete_task_response(products[P].user_id, t) = "ServerError"
            /\ delete_product_response(products[P].user_id, P, TRUE) = "ServerError"

\* The outcome does not depend on which row of the pair .first() returns.
C26_OutcomeDetermined ==
    \A u \in Users : \A p \in DOMAIN products : \A r \in Roles :
        (products[p].user_id # u) =>
            \A a \in RowsFor(p, u) :
                (check_product_access(u, p, r) = "Granted")
                    <=> (role_hierarchy(a.role, -1) >= role_hierarchy(r, 0))

C26_ReadChangesNothing ==
    (products' # products \/ accesses' # accesses) =>
        \A u \in Users : \A p \in ProductIds : ~get_product(u, p)

C26_SameStateSameOutcome ==
    (vars' # vars /\ UNCHANGED <<products, accesses>>) =>
        \A u \in Users : \A p \in ProductIds : \A r \in Roles :
            check_product_access(u, p, r)' = check_product_access(u, p, r)

C27_NewProductHasOwnerRow ==
    (nextProductId' # nextProductId) =>
        \A p \in DOMAIN products' \ DOMAIN products :
            {a.role : a \in {b \in BagToSet(accesses') :
                               b.product_id = p /\ b.user_id = products'[p].user_id}}
                = {"owner"}

C27_CreatorRowChangedByAnotherOwner ==
    (accesses' # accesses) =>
        \A p \in DOMAIN products \cap DOMAIN products' :
            LET creator == products[p].user_id
            IN  (GrantsOf(p, creator)' # GrantsOf(p, creator)) =>
                    \E v \in Users \ {creator} :
                        /\ "owner" \in GrantsOf(p, v)
                        /\ \/ remove_user_from_product(v, p, creator)
                           \/ \E r \in Roles : update_user_product_role(v, p, creator, r)
                           \/ \E r \in Roles : invite_user_to_product(v, p, creator, r)

C28_RemovedOnlyByOwnerDelete ==
    [][(DOMAIN products' # DOMAIN products) =>
          /\ \A P \in DOMAIN products \ DOMAIN products' :
                \E u \in Users :
                \E d \in {P} \cup UpFrom(P, Cardinality(DOMAIN products)) :
                    delete_product(u, d, TRUE)
          /\ \A u \in Users : \A d \in DOMAIN products :
                delete_product(u, d, TRUE) =>
                    check_product_access(u, d, "owner") = "Granted"]_vars

\* C28's case: the owner of a parent is served the deletion of it with a
\* child that another user owns and on which they have no row.
C28_Witness ==
    \E P, c \in DOMAIN products :
        LET u == products[P].user_id
        IN  /\ products[c].parent_id = P
            /\ products[c].user_id # u
            /\ RowsFor(c, u) = {}
            /\ check_product_access(u, c, "viewer") = "NoRole"
            /\ delete_product_response(u, P, TRUE) = "OK"

=============================================================================
